---- MODULE Spec2Model ----
(***************************************************************************)
(* Verification model of UnlockRS: the client InputBuffer                  *)
(* (src/src/input_buffer.rs), the client game loop (src/src/game.rs), the  *)
(* client transport (src/src/client_conn.rs), the relay server             *)
(* (src/src/server.rs) and the wire format (src/src/type_impl.rs).         *)
(*                                                                         *)
(* The module holds several specifications over one set of variables.      *)
(* Each specification drives one part of the program and leaves the        *)
(* variables of the other parts at their initial value:                    *)
(*   SpecBuf  - one InputBuffer under arbitrary calls of its public API    *)
(*   SpecPop  - one InputBuffer filled by inserts, then drained by pops    *)
(*   SpecGame - the game loops of a host and a joiner (debug build)        *)
(*   SpecNet  - two client transports and the server, joined by UDP        *)
(*   SpecSrv  - the server alone, fed any datagram a client can send       *)
(*   SpecRetry- the clock and the retransmission sweeps, no ack arriving   *)
(*   SpecChunk- the chunks of one large message and the chunk collector    *)
(*   SpecWire - serialize and parse of a message that fits one datagram    *)
(*   SpecLost - the server and its clock when the clients fall silent      *)
(*   SpecSilent - SpecGame with a joiner that never sends an input         *)
(*   SpecRun  - the threads of one client's transport task                 *)
(***************************************************************************)
EXTENDS Integers, Sequences, FiniteSets, TLC

(***************************************************************************)
(* Bounds of the model.                                                    *)
(***************************************************************************)
\* highest frame number passed to an InputBuffer call in SpecBuf / SpecPop
MaxFrame == 3

(***************************************************************************)
(* Program constants and value encodings.                                  *)
(***************************************************************************)
MAX_PLAYER_COUNT == 2
\* PlayerID as usize (types.rs: enum PlayerID { Player1, Player2 })
Player1 == 0
Player2 == 1
PlayerSlots == 0 .. (MAX_PLAYER_COUNT - 1)

\* Option<T>: None is the empty tuple, Some(x) the one-element tuple <<x>>
None == <<>>
Some(x) == <<x>>
IsSome(o) == o # None
Unwrap(o) == o[1]

\* Vec<PlayerInput> values a player can produce in one frame
InputVals == { <<>>, <<"Left">> }

\* [Option<Vec<PlayerInput>>; MAX_PLAYER_COUNT] with every slot None
NoInputs == [i \in PlayerSlots |-> None]

(***************************************************************************)
(* input_buffer.rs : PlayerInputs                                          *)
(***************************************************************************)
PlayerInputs_new(frame) == [frame |-> frame, inputs |-> NoInputs]

insert_player_input(pi, input, player_id) ==
    [pi EXCEPT !.inputs[player_id] = Some(input)]

is_verified_other_only(pi, local_player, player_count) ==
    Cardinality({ idx \in PlayerSlots :
        idx < player_count /\ IsSome(pi.inputs[idx]) }) = player_count

is_verified(pi, local_player, player_count) ==
    Cardinality({ idx \in PlayerSlots :
        \/ (idx < player_count /\ IsSome(pi.inputs[idx]))
        \/ idx = local_player }) = player_count

(***************************************************************************)
(* input_buffer.rs : InputBuffer                                           *)
(***************************************************************************)
InputBuffer_new ==
    [ input_frames         |-> <<>>,
      last_verified_inputs |-> NoInputs,
      player_count         |-> 1,
      local_player         |-> Player1 ]

\* [T; 2]::swap(a, b)
swap(inputs, a, b) ==
    [i \in PlayerSlots |-> IF i = a THEN inputs[b]
                           ELSE IF i = b THEN inputs[a] ELSE inputs[i]]

\* VecDeque::retain(|input_frame| input_frame.frame >= min_frame)
RECURSIVE retain_from(_, _)
retain_from(frames, min_frame) ==
    IF frames = <<>> THEN <<>>
    ELSE IF Head(frames).frame >= min_frame
         THEN <<Head(frames)>> \o retain_from(Tail(frames), min_frame)
         ELSE retain_from(Tail(frames), min_frame)

\* update_player_count, as a mutant whose retain keeps curr_verified_frame
update_player_count_keep_verified(b, local_player, player_cnt, curr_verified_frame) ==
    LET b1 == IF local_player = b.local_player
              THEN [b EXCEPT !.last_verified_inputs = NoInputs]
              ELSE LET kept == retain_from(b.input_frames, curr_verified_frame)
                   IN [b EXCEPT !.input_frames =
                         [i \in 1 .. Len(kept) |->
                            [kept[i] EXCEPT !.inputs =
                               swap(kept[i].inputs, local_player, b.local_player)]]]
    IN [b1 EXCEPT !.local_player = local_player, !.player_count = player_cnt]
update_player_count(b, local_player, player_cnt, curr_verified_frame) ==
    LET b1 == IF local_player = b.local_player
              THEN [b EXCEPT !.last_verified_inputs = NoInputs]
              ELSE LET kept == retain_from(b.input_frames, curr_verified_frame + 1)
                   IN [b EXCEPT !.input_frames =
                         [i \in 1 .. Len(kept) |->
                            [kept[i] EXCEPT !.inputs =
                               swap(kept[i].inputs, local_player, b.local_player)]]]
    IN [b1 EXCEPT !.local_player = local_player, !.player_count = player_cnt]

\* self.input_frames.back().map_or(0, |pi| pi.frame)
back_frame_or_0(frames) ==
    IF frames = <<>> THEN 0 ELSE frames[Len(frames)].frame

\* the fill loop: while back().frame < frame { push_back(new(next_frame)) }
RECURSIVE fill_to(_, _)
fill_to(frames, frame) ==
    IF back_frame_or_0(frames) < frame
    THEN LET next_frame == IF frames = <<>> THEN frame
                           ELSE frames[Len(frames)].frame + 1
         IN fill_to(Append(frames, PlayerInputs_new(next_frame)), frame)
    ELSE frames

\* iter().position of the first entry whose frame is `frame`, 0 when absent
find_frame(frames, frame) ==
    IF \E i \in 1 .. Len(frames) : frames[i].frame = frame
    THEN CHOOSE i \in 1 .. Len(frames) :
            /\ frames[i].frame = frame
            /\ \A j \in 1 .. (i - 1) : frames[j].frame # frame
    ELSE 0

partition_point_back(frames, frame) == Len(frames)

\* VecDeque::partition_point(|pi| pi.frame < frame): number of leading
\* entries that satisfy the predicate
partition_point(frames, frame) ==
    Cardinality({ i \in 1 .. Len(frames) :
        \A j \in 1 .. i : frames[j].frame < frame })

\* VecDeque::insert(index, value), index counted from 0
insert_at(frames, index, value) ==
    SubSeq(frames, 1, index) \o <<value>> \o SubSeq(frames, index + 1, Len(frames))

\* if let Some(existing) = find(frame) { existing.insert_player_input }
\* else { insert(partition_point, new_inputs) }
set_or_insert(frames, inp, frame, player_id) ==
    LET k == find_frame(frames, frame)
    IN IF k # 0
       THEN [frames EXCEPT ![k] = insert_player_input(frames[k], inp, player_id)]
       ELSE insert_at(frames, partition_point(frames, frame),
                      insert_player_input(PlayerInputs_new(frame), inp, player_id))

insert_curr_player_inp(b, inp, frame) ==
    [b EXCEPT !.input_frames =
        set_or_insert(fill_to(b.input_frames, frame), inp, frame, b.local_player)]

\* frame of the first buffered entry whose local slot is filled, 0 when none
first_input_frame_local(b) ==
    LET idx == { i \in 1 .. Len(b.input_frames) :
                    IsSome(b.input_frames[i].inputs[b.local_player]) }
    IN IF idx = {} THEN 0
       ELSE b.input_frames[CHOOSE i \in idx : \A j \in idx : i <= j].frame

\* the early return of insert_other_player_inp
stale_for_local(b, frame) ==
    /\ first_input_frame_local(b) # 0
    /\ frame < first_input_frame_local(b)

other_player_id(b) == IF b.local_player = Player1 THEN Player2 ELSE Player1

\* insert_other_player_inp, as a mutant without the early return
insert_other_player_inp_no_guard(b, inp, frame) ==
    [b EXCEPT !.input_frames =
        set_or_insert(fill_to(b.input_frames, frame), inp, frame, other_player_id(b))]
insert_other_player_inp(b, inp, frame) ==
    IF stale_for_local(b, frame) THEN b
    ELSE [b EXCEPT !.input_frames =
            set_or_insert(fill_to(b.input_frames, frame), inp, frame,
                          other_player_id(b))]

\* pop_back() in place of pop_front()
pop_next_verified_frame_back(b) ==
    IF /\ b.input_frames # <<>>
       /\ is_verified(Head(b.input_frames), b.local_player, b.player_count)
    THEN LET n == Len(b.input_frames)
         IN [ buf |-> [b EXCEPT !.input_frames = SubSeq(b.input_frames, 1, n - 1),
                                !.last_verified_inputs = b.input_frames[n].inputs],
              res |-> Some(b.input_frames[n]) ]
    ELSE [ buf |-> b, res |-> None ]

\* returns the buffer after the call and the Option<PlayerInputs> result
pop_next_verified_frame(b) ==
    IF /\ b.input_frames # <<>>
       /\ is_verified(Head(b.input_frames), b.local_player, b.player_count)
    THEN [ buf |-> [b EXCEPT !.input_frames = Tail(b.input_frames),
                             !.last_verified_inputs = Head(b.input_frames).inputs],
           res |-> Some(Head(b.input_frames)) ]
    ELSE [ buf |-> b, res |-> None ]

\* excluding_iter_after_last_verified, as a mutant that fills an absent slot
\* whenever last_verified_inputs holds an input for that slot
excluding_iter_after_last_verified_either(b) ==
    [ i \in 1 .. Len(b.input_frames) |->
        [ b.input_frames[i] EXCEPT !.inputs =
            [ player_id \in PlayerSlots |->
                IF IsSome(b.input_frames[i].inputs[player_id])
                THEN b.input_frames[i].inputs[player_id]
                ELSE b.last_verified_inputs[player_id] ] ] ]

\* excluding_iter_after_last_verified: the buffered frames in order, every
\* absent slot filled from last_verified_inputs when both of its slots are Some
excluding_iter_after_last_verified(b) ==
    [ i \in 1 .. Len(b.input_frames) |->
        [ b.input_frames[i] EXCEPT !.inputs =
            [ player_id \in PlayerSlots |->
                IF IsSome(b.input_frames[i].inputs[player_id])
                THEN b.input_frames[i].inputs[player_id]
                ELSE IF /\ IsSome(b.last_verified_inputs[0])
                        /\ IsSome(b.last_verified_inputs[1])
                     THEN b.last_verified_inputs[player_id]
                     ELSE None ] ] ]

(***************************************************************************)
(* game.rs : Simulation.  The arena is represented by the frame counter    *)
(* and, per player, the two fields that inputs write (movement_input,      *)
(* shoot_input); positions, bullets and enemies are computed from these    *)
(* and the frame by the deterministic physics step.                        *)
(***************************************************************************)
Player_new == [movement_input |-> 0, shoot_input |-> FALSE]

Simulation_new == [frame |-> 0, players |-> [i \in PlayerSlots |-> Player_new]]

RECURSIVE apply_inputs(_, _)
apply_inputs(player, inputs) ==
    IF inputs = <<>> THEN player
    ELSE apply_inputs(
            CASE Head(inputs) = "Left"  -> [player EXCEPT !.movement_input = -1]
              [] Head(inputs) = "Right" -> [player EXCEPT !.movement_input = 1]
              [] Head(inputs) = "Shoot" -> [player EXCEPT !.shoot_input = TRUE],
            Tail(inputs))

handle_player_input(player, inputs) ==
    apply_inputs([player EXCEPT !.shoot_input = FALSE], inputs)

\* Simulation::update: a slot that is None leaves its player's fields alone
Simulation_update(sim, player_inputs) ==
    [ frame   |-> sim.frame + 1,
      players |-> [ i \in PlayerSlots |->
                      IF IsSome(player_inputs[i])
                      THEN handle_player_input(sim.players[i], Unwrap(player_inputs[i]))
                      ELSE sim.players[i] ] ]

NetworkedPlayerInput_new(inputs, frame) == [inputs |-> inputs, frame |-> frame]

\* PageAllocator::get_copy_of_state and PageAllocator::set_memory, which
\* memory.rs does not hold: the state of an arena is a fixed-layout blob,
\* get_copy_of_state returns a copy of it and set_memory overwrites the
\* arena it is called on with the blob given, leaving the source alone
get_copy_of_state(arena) == [frame |-> arena.frame, players |-> arena.players]
set_memory(arena, data) == [arena EXCEPT !.frame = data.frame, !.players = data.players]

(***************************************************************************)
(* game.rs : the two loops that end a physics tick.  st carries the        *)
(* locals of main that the loops read and write.  debug_assert! is         *)
(* compiled in (the dev profile): a failed one panics, which ends the      *)
(* client's loop where it stands; st.panicked names the assertion.         *)
(***************************************************************************)
NoPanic == "none"
\* while let Some(verif_frame_input) = input_buffer.pop_next_verified_frame()
RECURSIVE verified_pop_loop(_)
verified_pop_loop(st) ==
    LET r == pop_next_verified_frame(st.input_buffer)
    IN IF ~IsSome(r.res) THEN st
       ELSE LET f == Unwrap(r.res)
                popped == [ st EXCEPT
                     !.input_buffer = r.buf,
                     !.sent = IF ~IsSome(f.inputs[st.local_player_id])
                              THEN @ \cup {NetworkedPlayerInput_new(st.curr_player, f.frame)}
                              ELSE @ ]
            IN IF st.verified.frame + 1 # f.frame
               THEN [popped EXCEPT !.panicked = "verified frame"]
               ELSE verified_pop_loop(
                      [ popped EXCEPT
                          !.verified = Simulation_update(@, f.inputs),
                          !.applied = IF st.session_player_count > 1
                                      THEN Append(@, f) ELSE @,
                          !.new_verified_state = TRUE ])

\* for (_, pred_frame_input) in input_buffer.excluding_iter_after_last_verified()
RECURSIVE predicted_loop(_, _)
predicted_loop(st, entries) ==
    IF entries = <<>> THEN st
    ELSE LET e == Head(entries)
             resent == [ st EXCEPT
                       !.sent = @ \cup {NetworkedPlayerInput_new(st.curr_player, e.frame)} ]
         IN IF st.predicted.frame < e.frame
            THEN IF st.predicted.frame + 1 # e.frame
                 THEN [resent EXCEPT !.panicked = "predicted frame"]
                 ELSE predicted_loop(
                        [resent EXCEPT !.predicted = Simulation_update(@, e.inputs)],
                        Tail(entries))
            ELSE predicted_loop(st, Tail(entries))


(***************************************************************************)
(* Transport: client_conn.rs (ConnectionServer, one per client process)    *)
(* and server.rs (Server).  A datagram is the record of what its bytes     *)
(* carry: reliable flag, header seq-num (0 when the flag is 0, as          *)
(* serialize writes it) and the message; addr is the client socket it      *)
(* comes from or goes to.  The random salt byte is not read by either      *)
(* side and is left out.  Messages here fit one datagram (the NonChunked   *)
(* branches).                                                              *)
(***************************************************************************)
\* client_conn.rs
MAX_RETRIES == 8
RETRY_TIMEOUT == 250
\* server.rs
Server_MAX_RETRIES == 120
Server_RETRY_TIMEOUT == 16
\* types.rs
MAX_UDP_PAYLOAD_LEN == 508
DATA_BIT_START_POS == 9
MAX_UDP_PAYLOAD_DATA_LENGTH == MAX_UDP_PAYLOAD_LEN - DATA_BIT_START_POS
\* widths of the seq-num counters: client sequence_number: u8, SeqNum(u16)
U8_RANGE == 256
U16_RANGE == 65536

\* client sockets
Addrs == {"a1", "a2"}

\* NetworkMessage: type, and the payload field the type uses
Msg(type, n, inputs, ids) == [type |-> type, n |-> n, inputs |-> inputs, ids |-> ids]
GetServerPlayerIDs == Msg("GetServerPlayerIDs", 0, <<>>, {})
ClientSentWorld == Msg("ClientSentWorld", 0, <<>>, {})
ClientSentPlayerInputs(inputs) == Msg("ClientSentPlayerInputs", 0, inputs, {})
ServerSideAck(seq_num) == Msg("ServerSideAck", seq_num, <<>>, {})
ClientSideAck(seq_num) == Msg("ClientSideAck", seq_num, <<>>, {})
ServerSentPlayerIDs(ids) == Msg("ServerSentPlayerIDs", 0, <<>>, ids)
ServerSentPlayerInputs(inputs) == Msg("ServerSentPlayerInputs", 0, inputs, {})
ServerSentWorld == Msg("ServerSentWorld", 0, <<>>, {})
ClientConnectToOtherWorld(id) == Msg("ClientConnectToOtherWorld", id, <<>>, {})
ServerRequestHostForWorldData == Msg("ServerRequestHostForWorldData", 0, <<>>, {})

\* NetworkMessage::serialize: ResendUntilAck and SendOnceButReceiveAck set
\* the reliable flag and write the seq-num; SendOnce writes flag 0, seq 0
serialize_reliable(addr, seq_num, msg) ==
    [addr |-> addr, reliable |-> TRUE, seq_num |-> seq_num, msg |-> msg]
serialize_SendOnce(addr, msg) ==
    [addr |-> addr, reliable |-> FALSE, seq_num |-> 0, msg |-> msg]

\* an entry of a pending table: HashMap<SeqNum, (Instant, SerializedNetworkMessage)>.
\* age is now - sent_time in ms; retransmissions counts the re-sends made
PendingEntry(seq_num, bytes) ==
    [seq_num |-> seq_num, age |-> 0, retransmissions |-> 0, bytes |-> bytes]

\* HashMap::insert / remove / contains_key on a table kept as a set of
\* records with a seq_num field
map_remove(table, seq_num) == {e \in table : e.seq_num # seq_num}
map_insert(table, entry) == map_remove(table, entry.seq_num) \cup {entry}
map_has(table, seq_num) == \E e \in table : e.seq_num = seq_num
map_get(table, seq_num) == CHOOSE e \in table : e.seq_num = seq_num

\* BufferedNetworkedPlayerInputs::bulk_insert_player_input
RECURSIVE bulk_insert_player_input(_, _)
bulk_insert_player_input(buffered_inputs, other) ==
    IF other = <<>> THEN buffered_inputs
    ELSE bulk_insert_player_input(
            IF \E i \in 1 .. Len(buffered_inputs) :
                   buffered_inputs[i].frame = Head(other).frame
            THEN buffered_inputs
            ELSE Append(buffered_inputs, Head(other)),
            Tail(other))

\* BufferedNetworkedPlayerInputs::discard_acknowledged_frames
discard_acknowledged_frames(buffered_inputs, frame) ==
    SelectSeq(buffered_inputs, LAMBDA input : input.frame > frame)

(***************************************************************************)
(* server.rs : Server.  s is the Server struct: addr_to_player,            *)
(* connections, non_input_pending_acks, sequence_number,                   *)
(* unack_input_seq_nums_to_frame, unack_input_buffer; s.socket collects    *)
(* the datagrams passed to socket.send_to; s.up is FALSE once the process  *)
(* has panicked.  The maps keyed by SocketAddr hold an entry exactly for   *)
(* the addresses create_new_connection has seen; they are functions over   *)
(* Addrs whose value for an unseen address is the empty map.               *)
(***************************************************************************)
Server_new ==
    [ addr_to_player                |-> [a \in Addrs |-> None],
      connections                   |-> [a \in Addrs |-> <<>>],
      non_input_pending_acks        |-> [a \in Addrs |-> {}],
      sequence_number               |-> 0,
      unack_input_seq_nums_to_frame |-> [a \in Addrs |-> {}],
      unack_input_buffer            |-> [a \in Addrs |-> <<>>],
      socket                        |-> {},
      up                            |-> TRUE ]

\* player_to_addr[id]
player_to_addr(s, id) ==
    IF \E a \in Addrs : s.addr_to_player[a] = Some(id)
    THEN Some(CHOOSE a \in Addrs : s.addr_to_player[a] = Some(id))
    ELSE None

create_new_connection(s, addr) ==
    LET new_id == Cardinality({a \in Addrs : IsSome(s.addr_to_player[a])}) % U8_RANGE
    IN [ s EXCEPT
           !.addr_to_player[addr] = Some(new_id),
           !.non_input_pending_acks[addr] = {},
           !.unack_input_buffer[addr] = <<>>,
           !.unack_input_seq_nums_to_frame[addr] = {} ]

\* SeqNumGenerator::get_seq_num returns s.sequence_number and leaves
get_seq_num(s) == [s EXCEPT !.sequence_number = (@ + 1) % U16_RANGE]

send_and_resend_until_ack(s, msg, dst) ==
    LET seq_num == s.sequence_number
        serialized_msg == serialize_reliable(dst, seq_num, msg)
    IN [ get_seq_num(s) EXCEPT
           !.non_input_pending_acks[dst] =
               map_insert(@, PendingEntry(seq_num, serialized_msg)),
           !.socket = @ \cup {serialized_msg} ]

RECURSIVE broadcast_to(_, _, _)
broadcast_to(s, msg, addresses) ==
    IF addresses = <<>> THEN s
    ELSE broadcast_to(send_and_resend_until_ack(s, msg, Head(addresses)),
                      msg, Tail(addresses))

broadcast_reliable(s, msg, src) == broadcast_to(s, msg, s.connections[src])

\* the loop of broadcast_inputs over the connections of src
RECURSIVE broadcast_inputs_to(_, _, _, _)
broadcast_inputs_to(s, inputs, seq_num, targets) ==
    IF targets = <<>> \/ ~s.up THEN s
    ELSE LET target == Head(targets)
             inp_buffer == bulk_insert_player_input(s.unack_input_buffer[target], inputs)
         IN IF inp_buffer = <<>>
            THEN [s EXCEPT !.unack_input_buffer[target] = inp_buffer, !.up = FALSE]
            ELSE broadcast_inputs_to(
                   [ s EXCEPT
                       !.unack_input_buffer[target] = inp_buffer,
                       !.unack_input_seq_nums_to_frame[target] =
                           map_insert(@, [seq_num |-> seq_num,
                                          frame   |-> inp_buffer[Len(inp_buffer)].frame]),
                       !.socket = @ \cup {serialize_reliable(target, seq_num,
                                              ServerSentPlayerInputs(inputs))} ],
                   inputs, seq_num, Tail(targets))

broadcast_inputs(s, inputs, src) ==
    broadcast_inputs_to(get_seq_num(s), inputs, s.sequence_number, s.connections[src])

\* handle_player_input_ack, as a mutant that takes every ack that reaches it
\* for the ack of all the input datagrams sent to src
handle_player_input_ack_any(s, seq_num, src) ==
    [ s EXCEPT !.unack_input_seq_nums_to_frame[src] = {},
               !.unack_input_buffer[src] = <<>> ]

handle_player_input_ack(s, seq_num, src) ==
    IF map_has(s.unack_input_seq_nums_to_frame[src], seq_num)
    THEN LET frame == map_get(s.unack_input_seq_nums_to_frame[src], seq_num).frame
         IN [ s EXCEPT
                !.unack_input_seq_nums_to_frame[src] = map_remove(@, seq_num),
                !.unack_input_buffer[src] = discard_acknowledged_frames(@, frame) ]
    ELSE s

\* handle_clients_ack, as a mutant that never takes the input-ack path
handle_clients_ack_pending_only(s, seq_num, src) ==
    [s EXCEPT !.non_input_pending_acks[src] = map_remove(@, seq_num)]
handle_clients_ack(s, seq_num, src) ==
    IF map_has(s.non_input_pending_acks[src], seq_num)
    THEN [s EXCEPT !.non_input_pending_acks[src] = map_remove(@, seq_num)]
    ELSE handle_player_input_ack(s, seq_num, src)

Server_send_ack(s, seq_num, dst) ==
    [s EXCEPT !.socket = @ \cup {serialize_SendOnce(dst, ServerSideAck(seq_num))}]

\* create_player_conn_from_to_host, as a mutant that registers one direction
create_player_conn_from_to_host_one_way(s, player1_addr, player2_addr) ==
    LET c1 == [s EXCEPT !.connections[player1_addr] = Append(@, player2_addr)]
    IN send_and_resend_until_ack(c1, ServerRequestHostForWorldData, player2_addr)
create_player_conn_from_to_host(s, player1_addr, player2_addr) ==
    LET c1 == [s EXCEPT !.connections[player1_addr] = Append(@, player2_addr)]
        c2 == [c1 EXCEPT !.connections[player2_addr] = Append(@, player1_addr)]
    IN send_and_resend_until_ack(c2, ServerRequestHostForWorldData, player2_addr)

process_message(s, msg, src) ==
    CASE msg.type = "ClientSentWorld" ->
            broadcast_reliable(s, ServerSentWorld, src)
      [] msg.type = "ClientSentPlayerInputs" ->
            broadcast_inputs(s, msg.inputs, src)
      [] msg.type = "GetServerPlayerIDs" ->
            send_and_resend_until_ack(s,
                ServerSentPlayerIDs({Unwrap(s.addr_to_player[a]) :
                    a \in {b \in Addrs : b # src /\ IsSome(s.addr_to_player[b])}}),
                src)
      [] msg.type = "ClientSideAck" ->
            handle_clients_ack(s, msg.n, src)
      [] msg.type = "ClientConnectToOtherWorld" ->
            IF msg.n = Unwrap(s.addr_to_player[src]) \/ ~IsSome(player_to_addr(s, msg.n))
            THEN [s EXCEPT !.up = FALSE]
            ELSE create_player_conn_from_to_host(s, src, Unwrap(player_to_addr(s, msg.n)))
      [] OTHER -> s

handle_message(s, msg, src) ==
    LET processed == process_message(s, msg.msg, src)
    IN IF msg.reliable /\ processed.up
       THEN Server_send_ack(processed, msg.seq_num, src)
       ELSE processed

\* Server::handle_retransmissions: the retain that would drop an entry
\* sits in an iterator adaptor that is never consumed, so nothing is dropped
Server_retransmit(pending_messages) ==
    { IF e.age > Server_RETRY_TIMEOUT
      THEN [e EXCEPT !.age = 0, !.retransmissions = @ + 1]
      ELSE e : e \in pending_messages }

Server_handle_retransmissions(s) ==
    [ s EXCEPT
        !.non_input_pending_acks =
            [a \in Addrs |-> Server_retransmit(s.non_input_pending_acks[a])],
        !.socket = @ \cup { e.bytes : e \in
                       { x \in UNION {s.non_input_pending_acks[a] : a \in Addrs} :
                           x.age > Server_RETRY_TIMEOUT } } ]

\* Server::update with a datagram read from the socket
Server_update(s, bytes) ==
    LET src == bytes.addr
        known == IF IsSome(s.addr_to_player[src]) THEN s
                 ELSE create_new_connection(s, src)
        handled == handle_message(known, bytes, src)
    IN IF handled.up THEN Server_handle_retransmissions(handled) ELSE handled

(***************************************************************************)
(* client_conn.rs : ConnectionServer.  cs is the struct: sequence_number,  *)
(* pending_acks, unack_input_buffer, unack_input_seq_nums_to_frame;        *)
(* cs.addr is the address of its socket, cs.socket collects the datagrams  *)
(* passed to socket.send, cs.dropped the seq-nums whose entry the retain   *)
(* of handle_retransmissions removed, cs.result the last value returned    *)
(* by send_player_inputs.                                                  *)
(***************************************************************************)
ConnectionServer_new(addr) ==
    [ addr                          |-> addr,
      sequence_number               |-> 0,
      pending_acks                  |-> {},
      unack_input_buffer            |-> <<>>,
      unack_input_seq_nums_to_frame |-> {},
      socket                        |-> {},
      dropped                       |-> {},
      result                        |-> "none" ]

handle_ack(cs, acked_seq_num) ==
    [cs EXCEPT !.pending_acks = map_remove(@, acked_seq_num)]

send_reliable(cs, request) ==
    LET serialized_message == serialize_reliable(cs.addr, cs.sequence_number, request)
    IN [ cs EXCEPT
           !.socket = @ \cup {serialized_message},
           !.pending_acks = map_insert(@, PendingEntry(cs.sequence_number,
                                                       serialized_message)),
           !.sequence_number = (@ + 1) % U8_RANGE ]

\* the acknowledgement is serialized as ResendUntilAck(seq_num): reliable
\* flag set, header seq-num the acknowledged one
send_ack(cs, seq_num) ==
    [cs EXCEPT !.socket = @ \cup {serialize_reliable(cs.addr, seq_num,
                                                     ClientSideAck(seq_num))}]

handle_retransmissions(cs) ==
    LET to_retry == {e \in cs.pending_acks : e.age > RETRY_TIMEOUT}
        retained == {e \in cs.pending_acks : e.age < RETRY_TIMEOUT * MAX_RETRIES}
    IN [ cs EXCEPT
           !.pending_acks = { IF e \in to_retry
                              THEN [e EXCEPT !.age = 0, !.retransmissions = @ + 1]
                              ELSE e : e \in retained },
           !.dropped = @ \cup {e.seq_num : e \in cs.pending_acks \ retained},
           !.socket = @ \cup {e.bytes : e \in to_retry \cap retained} ]

send_player_inputs(cs, inputs) ==
    IF Len(cs.unack_input_buffer) * 5 < MAX_UDP_PAYLOAD_DATA_LENGTH - 1
    THEN [cs EXCEPT !.result = "Disconnected"]
    ELSE LET buffered == Append(cs.unack_input_buffer, inputs)
         IN [ cs EXCEPT
                !.unack_input_buffer = buffered,
                !.unack_input_seq_nums_to_frame =
                    map_insert(@, [seq_num |-> cs.sequence_number,
                                   frame   |-> inputs.frame]),
                !.socket = @ \cup {serialize_reliable(cs.addr, cs.sequence_number,
                                       ClientSentPlayerInputs(buffered))},
                !.result = "Ok" ]

\* ConnectionServer::run, one turn of the loop with a datagram the receive
\* thread has parsed: its seq-num goes through ack_receiver to send_ack, its
\* message through network_msg_receiver to the match
run_received(cs, bytes) ==
    LET acked == IF bytes.reliable THEN send_ack(cs, bytes.seq_num) ELSE cs
        matched == IF bytes.msg.type = "ServerSideAck"
                   THEN handle_ack(acked, bytes.msg.n)
                   ELSE acked
    IN handle_retransmissions(matched)

\* one turn of the loop with a DirectRequest from the game
run_DirectRequest(cs, network_msg) ==
    handle_retransmissions(send_reliable(cs, network_msg))

\* one turn of the loop with an IndirectRequest from the game
run_IndirectRequest(cs, inp) ==
    handle_retransmissions(send_player_inputs(cs, inp))

(***************************************************************************)
(* State.                                                                  *)
(***************************************************************************)
VARIABLES
    ib,          \* the InputBuffer under test (SpecBuf, SpecPop)
    ret,         \* result of the last InputBuffer call: Option<PlayerInputs>
    lastPopped,  \* frame of the most recently popped FrameInputs, 0 if none
    \* SpecPop: record of the calls made on ib
    phase,       \* "insert", "pop" (a pop has been made), "done" (a pop returned None)
    localCalls,  \* frames passed to insert_curr_player_inp
    remoteCalls, \* frames passed to insert_other_player_inp
    dropped,     \* TRUE once insert_other_player_inp took its early return
    popLog       \* frames returned by pop_next_verified_frame, in call order

bufVars == <<ib, ret, lastPopped>>
popVars == <<phase, localCalls, remoteCalls, dropped, popLog>>

\* SpecGame: the locals of game.rs main, one copy per client process
VARIABLES
    game_state,            \* GameState
    pc,                    \* position inside a physics tick: "idle" or "drain"
    curr_player,           \* input sampled for the running tick
    input_buffer,
    session_player_count,
    local_player_id,
    verified,              \* verif_allocator memory (verified_simulation)
    predicted,             \* pred_allocator memory (predicted_simulation)
    sent,                  \* ClientSentPlayerInputs requests passed to request_sender
    world_sent,            \* ClientSentWorld requests passed to request_sender
    applied,               \* FrameInputs popped in a two-player session, in order
    panicked,              \* NoPanic, or the debug_assert that ended the process
    presses                \* number of ticks so far that sampled a pressed key

gameVars == <<game_state, pc, curr_player, input_buffer, session_player_count,
              local_player_id, verified, predicted, sent, world_sent, applied,
              panicked, presses>>

\* SpecNet, SpecSrv, SpecRetry: the transport
VARIABLES
    connection_server,     \* the ConnectionServer of each client process
    server,                \* the Server
    received,              \* datagrams each client's receive thread has read
    server_received,       \* datagrams the server has read
    relayed                \* unacknowledged ServerSentPlayerInputs datagrams (SpecSrv)

netVars == <<connection_server, server, received, server_received, relayed>>

\* one sender and one receiver of the wire format (SpecChunk, SpecWire)
VARIABLES
    request,               \* the message given to serialize and its NetworkMessageType
    datagrams,             \* the datagrams serialize produced, in order
    collector,             \* the receiver's ChunkedMessageCollector
    collected,             \* seq-nums of the chunks passed to collect, in order
    combined,              \* what try_combine returned, with the chunks it used
    parsed,                \* what the receiver's parse returned
    parse_panicked         \* NoPanic, or the assertion that ended the receiver

wireVars == <<request, datagrams, collector, collected, combined, parsed,
              parse_panicked>>

\* the threads of one client's transport task (SpecRun)
VARIABLES
    request_channel,       \* "open", or "dropped" once the game task dropped request_sender
    run_pc,                \* ConnectionServer::run: "loop", "join", "returned"
    receive_pc,            \* the receive thread: "recv", "handle", "ended"
    receive_buffer         \* the datagram the receive thread has read: Option

taskVars == <<request_channel, run_pc, receive_pc, receive_buffer>>

vars == <<bufVars, popVars, gameVars, netVars, wireVars, taskVars>>

\* the variables a specification of one part leaves alone
NotBuf == <<gameVars, netVars, wireVars, taskVars>>
NotGame == <<bufVars, popVars, netVars, wireVars, taskVars>>
NotNet == <<bufVars, popVars, gameVars, wireVars, taskVars>>
NotWire == <<bufVars, popVars, gameVars, netVars, taskVars>>
NotTask == <<bufVars, popVars, gameVars, wireVars>>

\* the transport task as ConnectionServer::start leaves it
TaskIdle ==
    /\ request_channel = "open"
    /\ run_pc = "loop"
    /\ receive_pc = "recv"
    /\ receive_buffer = None

\* the wire format at rest (specifications that do not run it)
WireIdle ==
    /\ request = None
    /\ datagrams = <<>>
    /\ collector = {}
    /\ collected = <<>>
    /\ combined = <<>>
    /\ parsed = None
    /\ parse_panicked = NoPanic

\* the transport at rest (specifications that do not run it)
NetIdle ==
    /\ connection_server = [a \in Addrs |-> ConnectionServer_new(a)]
    /\ server = Server_new
    /\ received = [a \in Addrs |-> {}]
    /\ server_received = {}
    /\ relayed = {}

\* the two client processes: the one that hosts and the one that joins it
Host == "host"
Joiner == "joiner"
Clients == {Host, Joiner}
Peer(c) == IF c = Host THEN Joiner ELSE Host

\* the game loops at rest (specifications that do not run them)
GameIdle ==
    /\ game_state = [c \in Clients |-> "ChooseMode"]
    /\ pc = [c \in Clients |-> "idle"]
    /\ curr_player = [c \in Clients |-> <<>>]
    /\ input_buffer = [c \in Clients |-> InputBuffer_new]
    /\ session_player_count = [c \in Clients |-> 1]
    /\ local_player_id = [c \in Clients |-> Player1]
    /\ verified = [c \in Clients |-> Simulation_new]
    /\ predicted = [c \in Clients |-> Simulation_new]
    /\ sent = [c \in Clients |-> {}]
    /\ world_sent = {}
    /\ applied = [c \in Clients |-> <<>>]
    /\ panicked = [c \in Clients |-> NoPanic]
    /\ presses = 0

\* the InputBuffer under test at rest
BufIdle ==
    /\ ib = InputBuffer_new
    /\ ret = None
    /\ lastPopped = 0

PopIdle ==
    /\ phase = "insert"
    /\ localCalls = {}
    /\ remoteCalls = {}
    /\ dropped = FALSE
    /\ popLog = <<>>

(***************************************************************************)
(* SpecBuf: one InputBuffer, any sequence of API calls.                    *)
(***************************************************************************)
Frames == 1 .. MaxFrame

InitBuf ==
    /\ ib = InputBuffer_new
    /\ ret = None
    /\ lastPopped = 0
    /\ PopIdle
    /\ GameIdle
    /\ NetIdle
    /\ WireIdle
    /\ TaskIdle

Call_insert_curr_player_inp ==
    \E inp \in InputVals, frame \in Frames :
        /\ ib' = insert_curr_player_inp(ib, inp, frame)
        /\ ret' = None
        /\ UNCHANGED <<lastPopped, popVars, NotBuf>>

\* the buffer stores the vectors without reading them: one remote value,
\* different from the local ones so that a slot mix-up shows
RemoteInputVals == {<<"Right">>}

Call_insert_other_player_inp ==
    \E inp \in RemoteInputVals, frame \in Frames :
        /\ ib' = insert_other_player_inp(ib, inp, frame)
        /\ ret' = None
        /\ UNCHANGED <<lastPopped, popVars, NotBuf>>

Call_pop_next_verified_frame ==
    LET r == pop_next_verified_frame(ib)
    IN /\ ib' = r.buf
       /\ ret' = r.res
       /\ lastPopped' = IF IsSome(r.res) THEN Unwrap(r.res).frame ELSE lastPopped
       /\ UNCHANGED <<popVars, NotBuf>>

\* game.rs calls update_player_count with player count 2 only
\* (session_player_count + 1, from 1), and with either local slot
Call_update_player_count ==
    \E local_player \in PlayerSlots, curr_verified_frame \in 0 .. MaxFrame :
        /\ ib' = update_player_count(ib, local_player, 2, curr_verified_frame)
        /\ ret' = None
        /\ UNCHANGED <<lastPopped, popVars, NotBuf>>

NextBuf ==
    \/ Call_insert_curr_player_inp
    \/ Call_insert_other_player_inp
    \/ Call_pop_next_verified_frame
    \/ Call_update_player_count

SpecBuf == InitBuf /\ [][NextBuf]_vars

(***************************************************************************)
(* Claims on the InputBuffer.                                              *)
(***************************************************************************)
StrictlyAscending(frames) ==
    \A i \in 1 .. (Len(frames) - 1) : frames[i].frame < frames[i + 1].frame

\* C2: after any sequence of insert_curr_player_inp, insert_other_player_inp,
\* pop_next_verified_frame and update_player_count calls, the frames of
\* input_frames are strictly ascending from front to back, without duplicate.
C2_Monotone == StrictlyAscending(ib.input_frames)

\* an insert in front of a later frame has happened after a pop
C2_Witness ==
    /\ lastPopped > 0
    /\ Len(ib.input_frames) >= 2
    /\ \E i \in 1 .. (Len(ib.input_frames) - 1) :
          ib.input_frames[i].frame + 1 < ib.input_frames[i + 1].frame

\* C3: once pop_next_verified_frame has returned a frame, whenever the buffer
\* is non-empty its head frame is the most recently popped frame + 1.
C3_HeadFollowsPop ==
    (lastPopped > 0 /\ ib.input_frames # <<>>)
        => Head(ib.input_frames).frame = lastPopped + 1

\* the head of b is complete, in the words of the pop contract: both slots
\* filled, or one player and the local slot filled, or the local slot absent
\* and every remote slot among the first player_count slots filled
HeadComplete(b) ==
    LET h == Head(b.input_frames)
    IN \/ \A i \in PlayerSlots : IsSome(h.inputs[i])
       \/ b.player_count = 1 /\ IsSome(h.inputs[b.local_player])
       \/ /\ ~IsSome(h.inputs[b.local_player])
          /\ \A i \in 0 .. (b.player_count - 1) :
                i # b.local_player => IsSome(h.inputs[i])

InitPop ==
    /\ ib \in { InputBuffer_new,
                update_player_count(InputBuffer_new, Player1, 2, 0),
                update_player_count(InputBuffer_new, Player2, 2, 0) }
    /\ ret = None
    /\ lastPopped = 0
    /\ PopIdle
    /\ GameIdle
    /\ NetIdle
    /\ WireIdle
    /\ TaskIdle

Pop_insert_curr_player_inp ==
    \E inp \in InputVals, frame \in Frames \ localCalls :
        /\ phase = "insert"
        /\ ib' = insert_curr_player_inp(ib, inp, frame)
        /\ ret' = None
        /\ localCalls' = localCalls \cup {frame}
        /\ UNCHANGED <<lastPopped, phase, remoteCalls, dropped, popLog, NotBuf>>

Pop_insert_other_player_inp ==
    \E inp \in InputVals, frame \in Frames \ remoteCalls :
        /\ phase = "insert"
        /\ ib' = insert_other_player_inp(ib, inp, frame)
        /\ ret' = None
        /\ remoteCalls' = remoteCalls \cup {frame}
        /\ dropped' = (dropped \/ stale_for_local(ib, frame))
        /\ UNCHANGED <<lastPopped, phase, localCalls, popLog, NotBuf>>

Pop_pop_next_verified_frame ==
    LET r == pop_next_verified_frame(ib)
    IN /\ phase \in {"insert", "pop"}
       /\ ib' = r.buf
       /\ ret' = r.res
       /\ lastPopped' = IF IsSome(r.res) THEN Unwrap(r.res).frame ELSE lastPopped
       /\ popLog' = IF IsSome(r.res) THEN Append(popLog, Unwrap(r.res).frame)
                    ELSE popLog
       /\ phase' = IF IsSome(r.res) THEN "pop" ELSE "done"
       /\ UNCHANGED <<localCalls, remoteCalls, dropped, NotBuf>>

NextPop ==
    \/ Pop_insert_curr_player_inp
    \/ Pop_insert_other_player_inp
    \/ Pop_pop_next_verified_frame

SpecPop == InitPop /\ [][NextPop]_vars

\* S is a non-empty range a..b of frames
IsRange(S) ==
    /\ S # {}
    /\ \A f \in Frames :
          (\E lo \in S : lo <= f) /\ (\E hi \in S : f <= hi) => f \in S

\* the frames of S in ascending order
RECURSIVE AscendingSeq(_)
AscendingSeq(S) ==
    IF S = {} THEN <<>>
    ELSE LET lo == CHOOSE x \in S : \A y \in S : x <= y
         IN <<lo>> \o AscendingSeq(S \ {lo})

\* local and remote inserts have been called for exactly the frames of one
\* range, and the pops that followed have run until one returned None
DrainedRange ==
    /\ phase = "done"
    /\ localCalls = remoteCalls
    /\ IsRange(localCalls)

\* C4 as stated: whatever the call order of the inserts, the pops return
\* the frames a..b in ascending order, then None, and the buffer is empty.
C4_AnyOrder ==
    DrainedRange =>
        /\ popLog = AscendingSeq(localCalls)
        /\ ret = None
        /\ ib.input_frames = <<>>

\* C4 amended: the same, for the call orders in which no remote insert was
\* ignored by the stale-frame guard of insert_other_player_inp.
C4_NoStaleRemote ==
    (DrainedRange /\ ~dropped) =>
        /\ popLog = AscendingSeq(localCalls)
        /\ ret = None
        /\ ib.input_frames = <<>>

\* a two-player buffer filled out of order for frames 1..MaxFrame was drained
C4_Witness ==
    /\ DrainedRange
    /\ ~dropped
    /\ ib.player_count = 2
    /\ Len(popLog) >= 2

(***************************************************************************)
(* SpecGame: two client game loops (game.rs main), one hosting and one     *)
(* joining.  The run starts when the host has pressed H (both simulations  *)
(* created, GameState::Playing) and the joiner has chosen the host in      *)
(* ChoosePlayer (chose_player set, ClientConnectToOtherWorld requested).   *)
(* The two Option<Simulation> of a client are Some exactly when its        *)
(* game_state is Playing.                                                  *)
(*                                                                         *)
(* What server_message_rcv can yield is what the relay can carry: the      *)
(* RequestWorld the server sends the host for the joiner's request, a      *)
(* world the host has uploaded, and any input the peer's game loop has     *)
(* passed to request_sender - at any time, any number of times, in any     *)
(* order, or never (loss, duplication, reordering).  A ServerSentPlayer-   *)
(* Inputs message is handled entry by entry; a message of several entries  *)
(* is the same as several one-entry messages drained in the same tick.     *)
(***************************************************************************)
\* highest frame a game loop inserts its local input for
MaxGameFrame == 4
\* number of ticks, over both clients, in which a key is pressed
MaxPresses == 1

InitGame ==
    /\ BufIdle
    /\ PopIdle
    /\ NetIdle
    /\ WireIdle
    /\ TaskIdle
    /\ game_state = [c \in Clients |-> IF c = Host THEN "Playing" ELSE "ChoosePlayer"]
    /\ pc = [c \in Clients |-> "idle"]
    /\ curr_player = [c \in Clients |-> <<>>]
    /\ input_buffer = [c \in Clients |-> InputBuffer_new]
    /\ session_player_count = [c \in Clients |-> 1]
    /\ local_player_id = [c \in Clients |-> Player1]
    /\ verified = [c \in Clients |-> Simulation_new]
    /\ predicted = [c \in Clients |-> Simulation_new]
    /\ sent = [c \in Clients |-> {}]
    /\ world_sent = {}
    /\ applied = [c \in Clients |-> <<>>]
    /\ panicked = [c \in Clients |-> NoPanic]
    /\ presses = 0

\* one entry of a ServerSentPlayerInputs message: insert_other_player_inp,
\* whose debug_assert!(frame != 0) stands behind the stale-frame return
receive_input(c, input) ==
    IF input.frame = 0 /\ ~stale_for_local(input_buffer[c], input.frame)
    THEN /\ panicked' = [panicked EXCEPT ![c] = "insert frame"]
         /\ UNCHANGED input_buffer
    ELSE /\ input_buffer' = [input_buffer EXCEPT ![c] =
                                insert_other_player_inp(@, input.inputs, input.frame)]
         /\ UNCHANGED panicked

\* game.rs:466-488: the physics tick starts; the sampled input is sent and
\* inserted into the InputBuffer
Tick_begin(c) ==
    \E inp \in InputVals :
        LET multi == session_player_count[c] > 1
            send_frame == IF multi THEN predicted[c].frame + 1 ELSE verified[c].frame
            insert_frame == IF multi THEN predicted[c].frame + 1
                            ELSE verified[c].frame + 1
        IN /\ game_state[c] = "Playing"
           /\ panicked[c] = NoPanic
           /\ pc[c] = "idle"
           /\ insert_frame <= MaxGameFrame
           /\ inp # <<>> => presses < MaxPresses
           /\ presses' = IF inp # <<>> THEN presses + 1 ELSE presses
           /\ curr_player' = [curr_player EXCEPT ![c] = inp]
           /\ sent' = [sent EXCEPT ![c] = @ \cup {NetworkedPlayerInput_new(inp, send_frame)}]
           /\ input_buffer' = [input_buffer EXCEPT ![c] =
                                  insert_curr_player_inp(@, inp, insert_frame)]
           /\ pc' = [pc EXCEPT ![c] = "drain"]
           /\ UNCHANGED <<game_state, session_player_count, local_player_id, verified,
                          predicted, world_sent, applied, panicked, NotGame>>

\* game.rs:491-500: ServerSentPlayerInputs drained inside a tick
Playing_ServerSentPlayerInputs(c) ==
    \E input \in sent[Peer(c)] :
        /\ game_state[c] = "Playing"
        /\ panicked[c] = NoPanic
        /\ pc[c] = "drain"
        /\ receive_input(c, input)
        /\ UNCHANGED <<game_state, pc, curr_player, session_player_count,
                       local_player_id, verified, predicted, sent, world_sent,
                       applied, presses, NotGame>>

\* game.rs:501-535: ServerRequestHostForWorldData drained inside a tick.
\* The server sends it to the client named in ConnectToPeer, the host.
Playing_ServerRequestHostForWorldData(c) ==
    LET first == session_player_count[c] = 1
    IN /\ c = Host
       /\ game_state[c] = "Playing"
       /\ panicked[c] = NoPanic
       /\ pc[c] = "drain"
       /\ session_player_count' = [session_player_count EXCEPT ![c] =
                                      IF first THEN @ + 1 ELSE @]
       /\ input_buffer' = [input_buffer EXCEPT ![c] =
                              IF first
                              THEN update_player_count(@, local_player_id[c],
                                       session_player_count[c] + 1, verified[c].frame)
                              ELSE @]
       /\ predicted' = [predicted EXCEPT ![c] =
                           IF first THEN set_memory(@, get_copy_of_state(verified[c]))
                           ELSE @]
       /\ world_sent' = world_sent \cup {get_copy_of_state(verified[c])}
       /\ sent' = [sent EXCEPT ![c] =
                     @ \cup {NetworkedPlayerInput_new(curr_player[c], verified[c].frame + 1)}]
       /\ UNCHANGED <<game_state, pc, curr_player, local_player_id, verified,
                      applied, panicked, presses, NotGame>>

\* the end of the tick, as a mutant in which the resync is a pointer swap:
\* the verified handle ends the tick on the arena the predicted loop wrote
Tick_end_pointer_swap(c) ==
    LET st0 == [ input_buffer         |-> input_buffer[c],
                 local_player_id      |-> local_player_id[c],
                 session_player_count |-> session_player_count[c],
                 curr_player          |-> curr_player[c],
                 verified             |-> verified[c],
                 predicted            |-> predicted[c],
                 sent                 |-> sent[c],
                 applied              |-> applied[c],
                 panicked             |-> panicked[c],
                 new_verified_state   |-> FALSE ]
        st1 == verified_pop_loop(st0)
        st2 == IF st1.new_verified_state /\ st1.session_player_count > 1
               THEN [st1 EXCEPT !.predicted =
                                    set_memory(@, get_copy_of_state(st1.verified))]
               ELSE st1
        st3 == IF st1.panicked # NoPanic THEN st1
               ELSE predicted_loop(st2,
                        excluding_iter_after_last_verified(st2.input_buffer))
    IN /\ game_state[c] = "Playing"
       /\ panicked[c] = NoPanic
       /\ pc[c] = "drain"
       /\ input_buffer' = [input_buffer EXCEPT ![c] = st3.input_buffer]
       /\ verified' = [verified EXCEPT ![c] = st3.predicted]
       /\ predicted' = [predicted EXCEPT ![c] = st3.predicted]
       /\ sent' = [sent EXCEPT ![c] = st3.sent]
       /\ applied' = [applied EXCEPT ![c] = st3.applied]
       /\ panicked' = [panicked EXCEPT ![c] = st3.panicked]
       /\ pc' = [pc EXCEPT ![c] = "idle"]
       /\ UNCHANGED <<game_state, curr_player, session_player_count,
                      local_player_id, world_sent, presses, NotGame>>

\* game.rs:539-612: the channel is empty; the verified pop loop, the resync
\* of the predicted arena and the predicted loop end the tick
Tick_end(c) ==
    LET st0 == [ input_buffer         |-> input_buffer[c],
                 local_player_id      |-> local_player_id[c],
                 session_player_count |-> session_player_count[c],
                 curr_player          |-> curr_player[c],
                 verified             |-> verified[c],
                 predicted            |-> predicted[c],
                 sent                 |-> sent[c],
                 applied              |-> applied[c],
                 panicked             |-> panicked[c],
                 new_verified_state   |-> FALSE ]
        st1 == verified_pop_loop(st0)
        st2 == IF st1.new_verified_state /\ st1.session_player_count > 1
               THEN [st1 EXCEPT !.predicted =
                                    set_memory(@, get_copy_of_state(st1.verified))]
               ELSE st1
        st3 == IF st1.panicked # NoPanic THEN st1
               ELSE predicted_loop(st2,
                        excluding_iter_after_last_verified(st2.input_buffer))
    IN /\ game_state[c] = "Playing"
       /\ panicked[c] = NoPanic
       /\ pc[c] = "drain"
       /\ input_buffer' = [input_buffer EXCEPT ![c] = st3.input_buffer]
       /\ verified' = [verified EXCEPT ![c] = st3.verified]
       /\ predicted' = [predicted EXCEPT ![c] = st3.predicted]
       /\ sent' = [sent EXCEPT ![c] = st3.sent]
       /\ applied' = [applied EXCEPT ![c] = st3.applied]
       /\ panicked' = [panicked EXCEPT ![c] = st3.panicked]
       /\ pc' = [pc EXCEPT ![c] = "idle"]
       /\ UNCHANGED <<game_state, curr_player, session_player_count,
                      local_player_id, world_sent, presses, NotGame>>

\* game.rs:394-406: inputs received while waiting for the world
ChoosePlayer_ServerSentPlayerInputs(c) ==
    \E input \in sent[Peer(c)] :
        /\ game_state[c] = "ChoosePlayer"
        /\ panicked[c] = NoPanic
        /\ receive_input(c, input)
        /\ UNCHANGED <<game_state, pc, curr_player, session_player_count,
                       local_player_id, verified, predicted, sent, world_sent,
                       applied, presses, NotGame>>

\* game.rs:407-438: the world arrives and the joiner starts playing
ChoosePlayer_ServerSentWorld(c) ==
    \E data \in world_sent :
        /\ game_state[c] = "ChoosePlayer"
        /\ panicked[c] = NoPanic
        /\ verified' = [verified EXCEPT ![c] = data]
        /\ predicted' = [predicted EXCEPT ![c] = data]
        /\ IF data.frame > 0
           THEN /\ session_player_count' = [session_player_count EXCEPT ![c] = @ + 1]
                /\ local_player_id' = [local_player_id EXCEPT ![c] = Player2]
                /\ game_state' = [game_state EXCEPT ![c] = "Playing"]
                /\ input_buffer' = [input_buffer EXCEPT ![c] =
                                       update_player_count(@, Player2,
                                           session_player_count[c] + 1, data.frame)]
                /\ UNCHANGED panicked
           ELSE /\ panicked' = [panicked EXCEPT ![c] = "world frame"]
                /\ UNCHANGED <<session_player_count, local_player_id, game_state,
                               input_buffer>>
        /\ UNCHANGED <<pc, curr_player, sent, world_sent, applied, presses, NotGame>>

NextGame ==
    \E c \in Clients :
        \/ Tick_begin(c)
        \/ Playing_ServerSentPlayerInputs(c)
        \/ Playing_ServerRequestHostForWorldData(c)
        \/ Tick_end(c)
        \/ ChoosePlayer_ServerSentPlayerInputs(c)
        \/ ChoosePlayer_ServerSentWorld(c)

SpecGame == InitGame /\ [][NextGame]_vars

\* C6: every FrameInputs returned by pop_next_verified_frame in the game
\* loop has frame == verified.frame + 1 when it is popped (the debug_assert
\* of game.rs:554 never fails), on the host and on the joiner.
C6_PopIsNextFrame == \A c \in Clients : panicked[c] # "verified frame"

\* what client c passed to the network for a frame never differs from what
\* it passed for that frame before, nor from the local input it applied
PairsAgree(c) ==
    /\ \A e1 \in sent[c], e2 \in sent[c] :
           e1.frame = e2.frame => e1.inputs = e2.inputs
    /\ \A i \in 1 .. Len(applied[c]), e \in sent[c] :
           LET own == applied[c][i].inputs[local_player_id[c]]
           IN (IsSome(own) /\ e.frame = applied[c][i].frame) => e.inputs = Unwrap(own)

\* C1: in a two-player session where both clients are given the same
\* (frame, input-per-slot) pairs (every input a client emitted for a frame
\* has one value), for every frame both clients have popped the FrameInputs
\* applied to the verified simulation are the same on both, both slots,
\* also when the local slot was absent at pop time.
C1_RollbackConvergence ==
    (\A c \in Clients : PairsAgree(c)) =>
        \A i \in 1 .. Len(applied[Host]), j \in 1 .. Len(applied[Joiner]) :
            applied[Host][i].frame = applied[Joiner][j].frame
                => applied[Host][i].inputs = applied[Joiner][j].inputs


(***************************************************************************)
(* SpecNet: two client transports and the server, joined by UDP: a         *)
(* datagram that has been sent can be read any number of times, in any     *)
(* order, or never.  The game's requests are inputs.  client_conn.rs       *)
(* never emits a ClientSentPlayerInputs datagram (send_player_inputs       *)
(* returns before it sends), so the server relays no inputs here; SpecSrv  *)
(* feeds it input datagrams.  No time passes in SpecNet; SpecRetry runs    *)
(* the clock and the retransmission sweeps.                                *)
(***************************************************************************)
\* reliable requests a client transport is given
MaxClientSends == 2
\* seq-nums the server hands out in SpecNet
MaxNetServerSeq == 2
\* highest frame of an input on the wire
MaxNetFrame == 2
\* datagrams on the way to the server
to_server == UNION {connection_server[a].socket : a \in Addrs}

\* what the game has been handed through server_msg_sender
handed(a) == {d.msg : d \in received[a]}

\* DirectRequests the game makes: J in the menu, the choice of a listed
\* player, the world after ServerRequestHostForWorldData
DirectRequests(a) ==
    {GetServerPlayerIDs}
    \cup {ClientConnectToOtherWorld(id) :
            id \in UNION {m.ids : m \in {x \in handed(a) : x.type = "ServerSentPlayerIDs"}}}
    \cup (IF ServerRequestHostForWorldData \in handed(a) THEN {ClientSentWorld} ELSE {})

InitNet ==
    /\ BufIdle
    /\ PopIdle
    /\ GameIdle
    /\ NetIdle
    /\ WireIdle
    /\ TaskIdle

Client_DirectRequest(a) ==
    \E network_msg \in DirectRequests(a) :
        /\ connection_server[a].sequence_number < MaxClientSends
        /\ connection_server' = [connection_server EXCEPT ![a] =
                                    run_DirectRequest(@, network_msg)]
        /\ UNCHANGED <<server, received, server_received, relayed, NotNet>>

Client_IndirectRequest(a) ==
    \E frame \in 1 .. MaxNetFrame :
        /\ connection_server' = [connection_server EXCEPT ![a] =
               run_IndirectRequest(@, NetworkedPlayerInput_new(<<>>, frame))]
        /\ UNCHANGED <<server, received, server_received, relayed, NotNet>>

Client_receive(a) ==
    \E bytes \in server.socket :
        /\ bytes.addr = a
        /\ received' = [received EXCEPT ![a] = @ \cup {bytes}]
        /\ connection_server' = [connection_server EXCEPT ![a] = run_received(@, bytes)]
        /\ UNCHANGED <<server, server_received, relayed, NotNet>>

Server_receive ==
    \E bytes \in to_server :
        LET updated == Server_update(server, bytes)
        IN /\ server.up
           /\ updated.sequence_number <= MaxNetServerSeq
           /\ server' = updated
           /\ server_received' = server_received \cup {bytes}
           /\ UNCHANGED <<connection_server, received, relayed, NotNet>>

NextNet ==
    \/ \E a \in Addrs : Client_DirectRequest(a)
    \/ \E a \in Addrs : Client_IndirectRequest(a)
    \/ \E a \in Addrs : Client_receive(a)
    \/ Server_receive

SpecNet == InitNet /\ [][NextNet]_vars

\* the datagrams send_reliable (client) and send_and_resend_until_ack
\* (server) have sent: every reliable one but the acknowledgements, which
\* send_ack writes to the socket itself
reliable_sent(socket) ==
    {d \in socket : d.reliable /\ d.msg.type # "ClientSideAck"}

\* C10: a reliable datagram whose pending entry is gone has been received by
\* its destination, or its entry was dropped by the timeout of
\* handle_retransmissions: no pending entry is removed before the
\* destination has received the datagram.
C10_NoEarlyRemoval ==
    /\ \A a \in Addrs : \A d \in reliable_sent(connection_server[a].socket) :
           \/ map_has(connection_server[a].pending_acks, d.seq_num)
           \/ d \in server_received
           \/ d.seq_num \in connection_server[a].dropped
    /\ \A d \in reliable_sent(server.socket) :
           \/ map_has(server.non_input_pending_acks[d.addr], d.seq_num)
           \/ d \in received[d.addr]


(***************************************************************************)
(* SpecSrv: the server alone.  What recv_from yields is an input: any      *)
(* datagram a client socket can carry, from either address, in any order   *)
(* and any number of times.  Input datagrams are the cumulative ones the   *)
(* wire format is made for, frames 1..b in order; an acknowledgement is    *)
(* what client_conn.rs send_ack writes for a seq-num.                      *)
(***************************************************************************)
\* seq-nums the server hands out in SpecSrv
MaxServerSeq == 3
RECURSIVE frame_range(_, _)
frame_range(a, b) ==
    IF a > b THEN <<>>
    ELSE <<NetworkedPlayerInput_new(<<>>, a)>> \o frame_range(a + 1, b)

\* the BufferedNetworkedPlayerInputs a client sends while none of its inputs
\* is acknowledged: after the input of frame b, the frames 1..b
InputDatagrams == {frame_range(1, b) : b \in 1 .. MaxNetFrame}

\* ServerPlayerIDs a ClientConnectToOtherWorld can name
PlayerIDs == 0 .. (Cardinality(Addrs) - 1)

InitSrv == InitNet

\* Server::update for the datagram bytes.  The socket holds what this update
\* sends, the datagrams of the update before have left it
Srv_update(bytes) == Server_update([server EXCEPT !.socket = {}], bytes)

\* the input datagrams whose seq-num the table of their destination holds
Srv_relayed(updated) ==
    {d \in relayed \cup updated.socket :
        /\ d.msg.type = "ServerSentPlayerInputs"
        /\ map_has(updated.unack_input_seq_nums_to_frame[d.addr], d.seq_num)}

Srv_GetServerPlayerIDs(a) ==
    LET updated == Srv_update(serialize_reliable(a, 0, GetServerPlayerIDs))
    IN /\ server.up
       /\ updated.sequence_number <= MaxServerSeq
       /\ server' = updated
       /\ relayed' = Srv_relayed(updated)
       /\ UNCHANGED <<connection_server, received, server_received, NotNet>>

Srv_ClientConnectToOtherWorld(a) ==
    \E id \in PlayerIDs :
        LET updated == Srv_update(serialize_reliable(a, 0, ClientConnectToOtherWorld(id)))
        IN /\ server.up
           /\ updated.sequence_number <= MaxServerSeq
           /\ server' = updated
           /\ relayed' = Srv_relayed(updated)
           /\ UNCHANGED <<connection_server, received, server_received, NotNet>>

Srv_ClientSentWorld(a) ==
    LET updated == Srv_update(serialize_reliable(a, 0, ClientSentWorld))
    IN /\ server.up
       /\ updated.sequence_number <= MaxServerSeq
       /\ server' = updated
       /\ relayed' = Srv_relayed(updated)
       /\ UNCHANGED <<connection_server, received, server_received, NotNet>>

Srv_ClientSentPlayerInputs(a) ==
    \E inputs \in InputDatagrams :
        LET updated == Srv_update(serialize_reliable(a, 0, ClientSentPlayerInputs(inputs)))
        IN /\ server.up
           /\ updated.sequence_number <= MaxServerSeq
           /\ server' = updated
           /\ relayed' = Srv_relayed(updated)
           /\ UNCHANGED <<connection_server, received, server_received, NotNet>>

Srv_ClientSideAck(a, seq_num) ==
    LET updated == Srv_update(serialize_reliable(a, seq_num, ClientSideAck(seq_num)))
    IN /\ server.up
       /\ server' = updated
       /\ relayed' = Srv_relayed(updated)
       /\ UNCHANGED <<connection_server, received, server_received, NotNet>>

NextSrv ==
    \/ \E a \in Addrs : Srv_GetServerPlayerIDs(a)
    \/ \E a \in Addrs : Srv_ClientConnectToOtherWorld(a)
    \/ \E a \in Addrs : Srv_ClientSentWorld(a)
    \/ \E a \in Addrs : Srv_ClientSentPlayerInputs(a)
    \/ \E a \in Addrs, seq_num \in 0 .. (MaxServerSeq - 1) : Srv_ClientSideAck(a, seq_num)

SpecSrv == InitSrv /\ [][NextSrv]_vars


\* highest frame an input datagram carries
highest_frame(d) == d.msg.inputs[Len(d.msg.inputs)].frame

\* the frames of a BufferedNetworkedPlayerInputs
frames_of(buffered_inputs) ==
    {buffered_inputs[i].frame : i \in 1 .. Len(buffered_inputs)}

\* the ack for seq_num from a takes the input-ack path of handle_clients_ack
InputAck(a, seq_num) ==
    /\ Srv_ClientSideAck(a, seq_num)
    /\ ~map_has(server.non_input_pending_acks[a], seq_num)
    /\ map_has(server.unack_input_seq_nums_to_frame[a], seq_num)

\* C7: when the ack arrives for the seq-num of the input datagram sent to a
\* whose highest frame is b, the unacked input buffer kept for a holds
\* afterwards exactly the frames > b it held before: none <= b is left and
\* none > b is lost.
C7_CumulativeAck ==
    [][\A a \in Addrs, seq_num \in 0 .. (MaxServerSeq - 1) :
          InputAck(a, seq_num) =>
              \A d \in {x \in relayed : x.addr = a /\ x.seq_num = seq_num} :
                  frames_of(server'.unack_input_buffer[a]) =
                      {f \in frames_of(server.unack_input_buffer[a]) :
                           f > highest_frame(d)}]_vars

MaxRetrySends == 1
\* seq-nums the server hands out in SpecRetry
MaxRetryServerSeq == 1
\* retransmissions of one entry that are followed, on the client and on the server
MaxRetransmissions == 9
MaxServerRetransmissions == 121

\* the time that passes between two turns of a loop
Delays == {RETRY_TIMEOUT + 1, RETRY_TIMEOUT * MAX_RETRIES}

\* the pending table after d ms
elapse(table, d, cap) ==
    {[e EXCEPT !.age = IF @ + d > cap THEN cap ELSE @ + d] : e \in table}

InitRetry == InitNet

Retry_DirectRequest(a) ==
    /\ Cardinality(to_server) < MaxRetrySends
    /\ connection_server' = [connection_server EXCEPT ![a] =
                                run_DirectRequest(@, GetServerPlayerIDs)]
    /\ UNCHANGED <<server, received, server_received, relayed, NotNet>>

\* a turn of ConnectionServer::run with nothing on its channels
Retry_Client_run(a) ==
    /\ connection_server' = [connection_server EXCEPT ![a] = handle_retransmissions(@)]
    /\ UNCHANGED <<server, received, server_received, relayed, NotNet>>

\* Server::update with a datagram
Retry_Server_update ==
    \E bytes \in to_server :
        LET updated == Server_update(server, bytes)
        IN /\ server.up
           /\ updated.sequence_number <= MaxRetryServerSeq
           /\ server' = updated
           /\ server_received' = server_received \cup {bytes}
           /\ UNCHANGED <<connection_server, received, relayed, NotNet>>

\* Server::update when recv_from returns WouldBlock
Retry_Server_WouldBlock ==
    /\ server.up
    /\ server' = Server_handle_retransmissions(server)
    /\ UNCHANGED <<connection_server, received, server_received, relayed, NotNet>>

Advance ==
    \E d \in Delays :
        /\ \A a \in Addrs :
              /\ \A e \in connection_server[a].pending_acks :
                     e.retransmissions < MaxRetransmissions
              /\ \A e \in server.non_input_pending_acks[a] :
                     e.retransmissions < MaxServerRetransmissions
        /\ connection_server' =
              [a \in Addrs |-> [connection_server[a] EXCEPT !.pending_acks =
                                   elapse(@, d, RETRY_TIMEOUT * MAX_RETRIES)]]
        /\ server' = [server EXCEPT !.non_input_pending_acks =
                         [a \in Addrs |-> elapse(server.non_input_pending_acks[a], d,
                                                 Server_RETRY_TIMEOUT + 1)]]
        /\ UNCHANGED <<received, server_received, relayed, NotNet>>

NextRetry ==
    \/ \E a \in Addrs : Retry_DirectRequest(a)
    \/ \E a \in Addrs : Retry_Client_run(a)
    \/ Retry_Server_update
    \/ Retry_Server_WouldBlock
    \/ Advance

SpecRetry == InitRetry /\ [][NextRetry]_vars

ClientRetransmissionBound ==
    \A a \in Addrs : \A e \in connection_server[a].pending_acks :
        e.retransmissions <= MAX_RETRIES

ServerRetransmissionBound ==
    \A a \in Addrs : \A e \in server.non_input_pending_acks[a] :
        e.retransmissions <= Server_MAX_RETRIES

\* C8: no pending entry, on a client or on the server, is retransmitted by
\* handle_retransmissions more than the side's MAX_RETRIES times, although
\* no ack ever arrives.
C8_RetransmissionBound ==
    ClientRetransmissionBound /\ ServerRetransmissionBound

(***************************************************************************)
(* type_impl.rs : the wire format.  A datagram is a sequence of bytes;     *)
(* byte position p of the code is element p + 1 of the sequence.           *)
(***************************************************************************)
AMT_RANDOM_BYTES == 1
RELIABLE_FLAG_BYTE_POS == AMT_RANDOM_BYTES
SEQ_NUM_BYTE_POS == RELIABLE_FLAG_BYTE_POS + 1
BASE_CHUNK_SEQ_NUM_BYTE_POS == SEQ_NUM_BYTE_POS + 2
AMT_OF_CHUNKS_BYTE_POS == BASE_CHUNK_SEQ_NUM_BYTE_POS + 2
DISCRIMINANT_BIT_START_POS == AMT_OF_CHUNKS_BYTE_POS + 2
PLAYER_MOVE_LEFT_BYTE_POS == 1
PLAYER_MOVE_RIGHT_BYTE_POS == 2
PLAYER_SHOOT_BYTE_POS == 3
U8_MAX == U8_RANGE - 1
U16_MAX == U16_RANGE - 1

byte_at(bytes, pos) == bytes[pos + 1]
\* bytes[from ..] and bytes[from .. to] of the code (to is exclusive)
slice_from(bytes, from) == SubSeq(bytes, from + 1, Len(bytes))
slice(bytes, from, to) == SubSeq(bytes, from + 1, to)
zeros(n) == [i \in 1 .. n |-> 0]
Min(a, b) == IF a < b THEN a ELSE b

\* u16::to_le_bytes, u16::from_le_bytes, u32::to_le_bytes, u32::from_le_bytes
u16_to_le_bytes(n) == <<n % U8_RANGE, (n \div U8_RANGE) % U8_RANGE>>
u16_from_le_bytes(lo, hi) == lo + U8_RANGE * hi
u32_to_le_bytes(n) ==
    <<n % U8_RANGE, (n \div U8_RANGE) % U8_RANGE,
      (n \div (U8_RANGE * U8_RANGE)) % U8_RANGE,
      (n \div (U8_RANGE * U8_RANGE * U8_RANGE)) % U8_RANGE>>
u32_from_le_bytes(b) ==
    b[1] + U8_RANGE * (b[2] + U8_RANGE * (b[3] + U8_RANGE * b[4]))
\* usize as u8
as_u8(n) == n % U8_RANGE

\* NetworkMessage with the payload of its variant, always a sequence:
\* the world bytes, the NetworkedPlayerInputs, the player ids, <<seq_num>>
\* of an ack, <<id>> of ClientConnectToOtherWorld, <<>> otherwise
NetworkMessage(type, payload) == [type |-> type, payload |-> payload]

\* NetworkMessageType
ResendUntilAck(seq_num) == [kind |-> "ResendUntilAck", seq_num |-> seq_num]
SendOnceButReceiveAck(seq_num) == [kind |-> "SendOnceButReceiveAck", seq_num |-> seq_num]
SendOnce == [kind |-> "SendOnce", seq_num |-> 0]

\* impl From<NetworkMessage> for u8, in the order of the discriminants 0 .. 10
MessageTypes ==
    << "GetServerPlayerIDs", "GetOwnServerPlayerID", "ClientSentWorld",
       "ClientSentPlayerInputs", "ServerSideAck", "ClientSideAck",
       "ServerSentPlayerIDs", "ServerSentPlayerInputs", "ServerSentWorld",
       "ClientConnectToOtherWorld", "ServerRequestHostForWorldData" >>
discriminant(type) == (CHOOSE i \in 1 .. Len(MessageTypes) : MessageTypes[i] = type) - 1
\* impl TryFrom<u8> for NetworkMessage: None is the Err
try_from(byte) == IF byte < Len(MessageTypes) THEN Some(MessageTypes[byte + 1]) ELSE None

bit(byte, pos) == (byte \div (2 ^ pos)) % 2
has_input(inputs, input) == \E i \in 1 .. Len(inputs) : inputs[i] = input

pack_player_inputs(inputs) ==
    (IF has_input(inputs, "Left") THEN 2 ^ PLAYER_MOVE_LEFT_BYTE_POS ELSE 0)
    + (IF has_input(inputs, "Right") THEN 2 ^ PLAYER_MOVE_RIGHT_BYTE_POS ELSE 0)
    + (IF has_input(inputs, "Shoot") THEN 2 ^ PLAYER_SHOOT_BYTE_POS ELSE 0)

parse_player_inputs(byte) ==
    (IF bit(byte, PLAYER_MOVE_LEFT_BYTE_POS) > 0 THEN <<"Left">> ELSE <<>>)
    \o (IF bit(byte, PLAYER_MOVE_RIGHT_BYTE_POS) > 0 THEN <<"Right">> ELSE <<>>)
    \o (IF bit(byte, PLAYER_SHOOT_BYTE_POS) > 0 THEN <<"Shoot">> ELSE <<>>)

\* SerializedMessageType: kind "NonChunked" (one datagram), "Chunked", or
\* "panic" with the assertion that failed
Serialized(kind, bytes) == [kind |-> kind, bytes |-> bytes]

chunk_header(salt, seq_num, i, amt_of_chunks, discriminator_byte) ==
    <<salt, 1>> \o u16_to_le_bytes((seq_num + i) % U16_RANGE)
    \o u16_to_le_bytes(seq_num) \o u16_to_le_bytes(amt_of_chunks % U16_RANGE)
    \o <<discriminator_byte>>

chunk_message(salt, discriminator_byte, data, msg_type) ==
    LET amt_of_chunks ==
            (Len(data) + MAX_UDP_PAYLOAD_DATA_LENGTH - 1) \div MAX_UDP_PAYLOAD_DATA_LENGTH
    IN IF ~(amt_of_chunks < U8_MAX)
       THEN Serialized("panic", "amt_of_chunks")
       ELSE IF msg_type.kind # "ResendUntilAck"
       THEN Serialized("panic", "Cannot send chunked message unreliable")
       ELSE Serialized("Chunked",
                [c \in 1 .. amt_of_chunks |->
                    chunk_header(salt, msg_type.seq_num, c - 1, amt_of_chunks,
                                 discriminator_byte)
                    \o slice(data, (c - 1) * MAX_UDP_PAYLOAD_DATA_LENGTH,
                             Min(c * MAX_UDP_PAYLOAD_DATA_LENGTH, Len(data)))])

push_non_chunked(bytes) == bytes \o u16_to_le_bytes(0) \o u16_to_le_bytes(0)

RECURSIVE serialize_inputs(_)
serialize_inputs(buffered_inputs) ==
    IF buffered_inputs = <<>> THEN <<>>
    ELSE u32_to_le_bytes(Head(buffered_inputs).frame)
         \o <<pack_player_inputs(Head(buffered_inputs).inputs)>>
         \o serialize_inputs(Tail(buffered_inputs))

may_overflow_udp_packet_serialize(salt, msg, msg_type) ==
    LET prefix == <<salt>> \o
            (IF msg_type.kind = "SendOnce" THEN <<0, 0, 0>>
             ELSE <<1>> \o u16_to_le_bytes(msg_type.seq_num))
        head == push_non_chunked(prefix) \o <<discriminant(msg.type)>>
    IN CASE msg.type \in {"ClientSentWorld", "ServerSentWorld"} ->
                IF Len(msg.payload) > MAX_UDP_PAYLOAD_DATA_LENGTH
                THEN chunk_message(salt, discriminant(msg.type), msg.payload, msg_type)
                ELSE Serialized("NonChunked", <<head \o msg.payload>>)
         [] msg.type \in {"ClientSentPlayerInputs", "ServerSentPlayerInputs"} ->
                LET bytes == head \o <<as_u8(Len(msg.payload))>>
                                  \o serialize_inputs(msg.payload)
                IN IF Len(bytes) <= MAX_UDP_PAYLOAD_LEN
                   THEN Serialized("NonChunked", <<bytes>>)
                   ELSE Serialized("panic", "length")
         [] msg.type \in {"ServerSideAck", "ClientSideAck"} ->
                Serialized("NonChunked", <<head \o u16_to_le_bytes(msg.payload[1])>>)
         [] msg.type = "ServerSentPlayerIDs" ->
                IF Len(msg.payload) <= U8_MAX
                THEN Serialized("NonChunked",
                        <<head \o <<as_u8(Len(msg.payload))>> \o msg.payload>>)
                ELSE Serialized("panic", "ids.len()")
         [] msg.type = "ClientConnectToOtherWorld" ->
                Serialized("NonChunked", <<head \o <<msg.payload[1]>> >>)
         [] OTHER -> Serialized("NonChunked", <<head>>)

serialize(salt, msg, msg_type) ==
    LET serialized == may_overflow_udp_packet_serialize(salt, msg, msg_type)
    IN IF serialized.kind = "NonChunked"
          /\ ~(Len(serialized.bytes[1]) < MAX_UDP_PAYLOAD_LEN)
       THEN Serialized("panic", "msg.bytes.len() < MAX_UDP_PAYLOAD_LEN")
       ELSE serialized

\* MsgBuffer after clear() and recv(): the datagram, cut or zero-filled to
\* MAX_UDP_PAYLOAD_LEN bytes
MsgBuffer_recv(datagram) ==
    IF Len(datagram) >= MAX_UDP_PAYLOAD_LEN
    THEN SubSeq(datagram, 1, MAX_UDP_PAYLOAD_LEN)
    ELSE datagram \o zeros(MAX_UDP_PAYLOAD_LEN - Len(datagram))

\* Result<MessageHeader, _>: None is the Err
parse_header(bytes) ==
    LET reliable == byte_at(bytes, RELIABLE_FLAG_BYTE_POS) > 0
        amt_of_chunks == u16_from_le_bytes(byte_at(bytes, AMT_OF_CHUNKS_BYTE_POS),
                                           byte_at(bytes, AMT_OF_CHUNKS_BYTE_POS + 1))
        message == try_from(byte_at(bytes, DISCRIMINANT_BIT_START_POS))
    IN IF message = None THEN None
       ELSE Some([ reliable |-> reliable,
                   seq_num |-> IF reliable
                               THEN Some(u16_from_le_bytes(
                                        byte_at(bytes, SEQ_NUM_BYTE_POS),
                                        byte_at(bytes, SEQ_NUM_BYTE_POS + 1)))
                               ELSE None,
                   amt_of_chunks |-> amt_of_chunks,
                   base_chunk_seq_num |->
                       u16_from_le_bytes(byte_at(bytes, BASE_CHUNK_SEQ_NUM_BYTE_POS),
                                         byte_at(bytes, BASE_CHUNK_SEQ_NUM_BYTE_POS + 1)),
                   is_chunked |-> amt_of_chunks > 0,
                   message |-> Unwrap(message) ])

\* the result of a parse: kind "NonChunked" (a DeserializedMessage),
\* "ChunkOfMessage", "Err", or "panic" with the assertion that failed
Parsed_panic(what) == [kind |-> "panic", what |-> what]
Parsed_Err == [kind |-> "Err"]
DeserializedMessage(reliable, seq_num, msg) ==
    [kind |-> "NonChunked", reliable |-> reliable, seq_num |-> seq_num, msg |-> msg]
ChunkOfMessage(seq_num, base_seq_num, amt_of_chunks, data_bytes) ==
    [kind |-> "ChunkOfMessage", seq_num |-> seq_num, base_seq_num |-> base_seq_num,
     amt_of_chunks |-> amt_of_chunks, data_bytes |-> data_bytes]

parse_inputs(data) ==
    [i \in 1 .. byte_at(data, 0) |->
        [inputs |-> parse_player_inputs(byte_at(data, 1 + 5 * (i - 1) + 4)),
         frame |-> u32_from_le_bytes(slice(data, 1 + 5 * (i - 1), 1 + 5 * (i - 1) + 4))]]

parse_data(header, data) ==
    LET done(payload) ==
            DeserializedMessage(header.reliable,
                                IF header.reliable THEN header.seq_num ELSE None,
                                NetworkMessage(header.message, payload))
    IN IF Len(data) % MAX_UDP_PAYLOAD_DATA_LENGTH # 0
       THEN Parsed_panic("data.len")
       ELSE CASE header.message \in {"ClientSentWorld", "ServerSentWorld"} -> done(data)
              [] header.message \in {"ClientSentPlayerInputs", "ServerSentPlayerInputs"} ->
                    IF 1 + 5 * byte_at(data, 0) > Len(data)
                    THEN Parsed_panic("index out of range")
                    ELSE done(parse_inputs(data))
              [] header.message = "ClientConnectToOtherWorld" -> done(<<byte_at(data, 0)>>)
              [] header.message \in {"ServerSideAck", "ClientSideAck"} ->
                    IF Len(data) < 2 THEN Parsed_Err
                    ELSE done(<<u16_from_le_bytes(byte_at(data, 0), byte_at(data, 1))>>)
              [] header.message = "ServerSentPlayerIDs" ->
                    IF ~(byte_at(data, 0) + 1 < Len(data))
                    THEN Parsed_panic("amt + 1 < data.len()")
                    ELSE done(slice(data, 1, byte_at(data, 0) + 1))
              [] OTHER -> done(<<>>)

\* the message types each side accepts (the debug_assert of parse_on_*)
ServerSideTypes ==
    {"GetServerPlayerIDs", "GetOwnServerPlayerID", "ClientSentWorld",
     "ClientSentPlayerInputs", "ClientSideAck", "ClientConnectToOtherWorld"}
ClientSideTypes ==
    {"ServerSideAck", "ServerSentPlayerIDs", "ServerSentPlayerInputs",
     "ServerSentWorld", "ServerRequestHostForWorldData"}

parse_on(accepted, bytes) ==
    LET header == parse_header(bytes)
    IN IF header = None THEN Parsed_Err
       ELSE IF Unwrap(header).message \notin accepted
       THEN Parsed_panic("invalid message type")
       ELSE IF Unwrap(header).is_chunked
       THEN IF Unwrap(header).seq_num = None
            THEN Parsed_panic("unwrap")
            ELSE ChunkOfMessage(Unwrap(Unwrap(header).seq_num),
                                Unwrap(header).base_chunk_seq_num,
                                Unwrap(header).amt_of_chunks, bytes)
       ELSE parse_data(Unwrap(header), slice_from(bytes, DATA_BIT_START_POS))

parse_on_server(bytes) == parse_on(ServerSideTypes, bytes)
parse_on_client(bytes) == parse_on(ClientSideTypes, bytes)

(***************************************************************************)
(* type_impl.rs : ChunkedMessageCollector.  msgs holds U16_MAX vectors,    *)
(* one per base seq-num 0 .. U16_MAX - 1; the model keeps the non-empty    *)
(* ones as a set of records [base_seq_num, msg].                           *)
(***************************************************************************)
ChunkedMessageCollector_default == {}

msgs_at(coll, base_seq_num) ==
    IF \E e \in coll : e.base_seq_num = base_seq_num
    THEN (CHOOSE e \in coll : e.base_seq_num = base_seq_num).msg
    ELSE <<>>

\* collect: msgs[base_seq_num].push(chunk), which panics when the index is
\* out of range
collect_panics(chunk) == ~(chunk.base_seq_num < U16_MAX)
collect(coll, chunk) ==
    {e \in coll : e.base_seq_num # chunk.base_seq_num}
    \cup {[base_seq_num |-> chunk.base_seq_num,
            msg |-> Append(msgs_at(coll, chunk.base_seq_num), chunk)]}

\* Vec::sort_by_key(|chunk| chunk.seq_num): a stable insertion sort
RECURSIVE sort_by_seq_num(_)
insert_sorted(sorted, chunk) ==
    LET n == Cardinality({i \in 1 .. Len(sorted) : sorted[i].seq_num <= chunk.seq_num})
    IN SubSeq(sorted, 1, n) \o <<chunk>> \o SubSeq(sorted, n + 1, Len(sorted))
sort_by_seq_num(msg) ==
    IF msg = <<>> THEN <<>>
    ELSE insert_sorted(sort_by_seq_num(SubSeq(msg, 1, Len(msg) - 1)), msg[Len(msg)])

RECURSIVE flat_map_data(_)
flat_map_data(msg) ==
    IF msg = <<>> THEN <<>>
    ELSE slice_from(Head(msg).data_bytes, DATA_BIT_START_POS) \o flat_map_data(Tail(msg))

\* the condition under which try_combine takes a vector as complete
is_complete(msg) ==
    /\ msg # <<>>
    /\ LET last_msg == msg[Len(msg)]
       IN /\ last_msg.seq_num =
                 (last_msg.base_seq_num + last_msg.amt_of_chunks - 1) % U16_RANGE
          /\ last_msg.amt_of_chunks = Len(msg)

\* try_combine: every vector is sorted; the first complete one, in the order
\* of the base seq-nums, is parsed, cleared and returned.  The result holds
\* the collector after the call, the Option returned and the vector used.
try_combine(coll) ==
    LET sorted == {[base_seq_num |-> e.base_seq_num, msg |-> sort_by_seq_num(e.msg)]
                      : e \in coll}
        complete == {e \in sorted : is_complete(e.msg)}
    IN IF complete = {}
       THEN [collector |-> sorted, ret |-> None, used |-> <<>>, panicked |-> NoPanic]
       ELSE LET e == CHOOSE x \in complete :
                         \A y \in complete : x.base_seq_num <= y.base_seq_num
                header == parse_header(e.msg[1].data_bytes)
                out == parse_data(Unwrap(header), flat_map_data(e.msg))
            IN IF e.msg[1].seq_num # e.msg[1].base_seq_num
               THEN [collector |-> sorted, ret |-> None, used |-> e.msg,
                     panicked |-> "msg[0].seq_num == msg[0].base_seq_num"]
               ELSE IF e.msg[1].seq_num > e.msg[Len(e.msg)].seq_num
               THEN [collector |-> sorted, ret |-> None, used |-> e.msg,
                     panicked |-> "msg[0].seq_num <= last_msg.seq_num"]
               ELSE IF out.kind = "panic"
               THEN [collector |-> sorted, ret |-> None, used |-> e.msg,
                     panicked |-> out.what]
               ELSE [collector |-> sorted \ {e}, ret |-> Some(out), used |-> e.msg,
                     panicked |-> NoPanic]

(***************************************************************************)
(* SpecChunk: the server serializes one ServerSentWorld too large for a    *)
(* datagram; the client's receive thread (client_conn.rs:111-148) reads    *)
(* its chunks from the socket, each any number of times and in any order.  *)
(***************************************************************************)
\* datagrams the receive thread reads
MaxDeliveries == 4
\* the payload lengths: three chunks, the last one partly or wholly filled
WorldLens == {2 * MAX_UDP_PAYLOAD_DATA_LENGTH + 1, 3 * MAX_UDP_PAYLOAD_DATA_LENGTH}
\* the seq-num of the first chunk: with and without wrap-around of the u16
BaseSeqNums == {1, U16_MAX - 1}
\* the random first byte of a datagram
Salts == {0, U8_MAX}
\* a payload of len bytes, none of them 0
world_bytes(len) == [i \in 1 .. len |-> 1 + (i % (U8_MAX - 1))]

Range(seq) == {seq[i] : i \in 1 .. Len(seq)}

InitChunk ==
    /\ BufIdle
    /\ PopIdle
    /\ GameIdle
    /\ NetIdle
    /\ WireIdle
    /\ TaskIdle

Chunk_send ==
    \E len \in WorldLens, seq_num \in BaseSeqNums, salt \in Salts :
        LET msg == NetworkMessage("ServerSentWorld", world_bytes(len))
            serialized == serialize(salt, msg, ResendUntilAck(seq_num))
        IN /\ request = None
           /\ serialized.kind = "Chunked"
           /\ request' = Some([msg |-> msg, msg_type |-> ResendUntilAck(seq_num)])
           /\ datagrams' = serialized.bytes
           /\ UNCHANGED <<collector, collected, combined, parsed, parse_panicked, NotWire>>

\* one pass of the receive thread's loop on a chunk: the ack is queued,
\* the chunk is collected and try_combine is called
Chunk_receive ==
    \E i \in 1 .. Len(datagrams) :
        LET chunk == parse_on_client(MsgBuffer_recv(datagrams[i]))
            collecting == collect(collector, chunk)
            combining == try_combine(collecting)
        IN /\ parse_panicked = NoPanic
           /\ Len(collected) < MaxDeliveries
           /\ chunk.kind = "ChunkOfMessage"
           /\ collected' = Append(collected, chunk.seq_num)
           /\ IF collect_panics(chunk)
              THEN /\ parse_panicked' = "index out of bounds"
                   /\ UNCHANGED <<collector, combined>>
              ELSE /\ parse_panicked' = combining.panicked
                   /\ collector' = combining.collector
                   /\ combined' =
                        IF IsSome(combining.ret)
                        THEN Append(combined,
                                [msg |-> Unwrap(combining.ret).msg,
                                 seq_nums |-> [j \in 1 .. Len(combining.used) |->
                                                  combining.used[j].seq_num]])
                        ELSE combined
           /\ UNCHANGED <<request, datagrams, parsed, NotWire>>

NextChunk ==
    \/ Chunk_send
    \/ Chunk_receive

SpecChunk == InitChunk /\ [][NextChunk]_vars

\* the seq-nums S0 .. S0+N-1 of the chunks of the request
chunk_seq_nums ==
    {(Unwrap(request).msg_type.seq_num + i) % U16_RANGE : i \in 0 .. Len(datagrams) - 1}

\* C11: the assembler yields a message for base seq-num S0 only when all N
\* distinct seq-nums S0 .. S0+N-1 have been collected, and then from these
\* N chunks, once each; chunks that arrive duplicated or out of order do
\* not change this: a duplicate neither stands in for a missing chunk nor
\* keeps the message from being completed once all N have arrived.
C11_ChunkAssembly ==
    IsSome(request) =>
        /\ \A k \in 1 .. Len(combined) :
              /\ Range(combined[k].seq_nums) = chunk_seq_nums
              /\ Len(combined[k].seq_nums) = Len(datagrams)
        /\ chunk_seq_nums \subseteq Range(collected) => combined # <<>>

\* C12: a payload larger than one datagram that is chunked by chunk_message
\* and reassembled by collect / try_combine from its N chunks, each once
\* and in any order of arrival, comes back as the original message: the
\* same variant with exactly the original payload bytes, the same length
\* and no padding.
C12_ChunkRoundTrip ==
    IsSome(request) =>
        \A k \in 1 .. Len(combined) :
            (/\ Range(combined[k].seq_nums) = chunk_seq_nums
             /\ Len(combined[k].seq_nums) = Len(datagrams))
                => /\ combined[k].msg.type = Unwrap(request).msg.type
                   /\ combined[k].msg.payload = Unwrap(request).msg.payload

(***************************************************************************)
(* SpecWire: a message that fits one datagram is serialized by its sender  *)
(* and the datagram is parsed by the side that accepts its type.           *)
(***************************************************************************)
\* world payloads that fit one datagram
WireWorldLens == {1, MAX_UDP_PAYLOAD_DATA_LENGTH - 1}
\* seq-nums in headers and acks: one and two bytes wide
WireSeqNums == {0, U8_RANGE + 1, U16_MAX}
\* frames of inputs: one and two bytes wide
WireFrames == {1, U8_RANGE + 2}
WireInputs == {<<>>, <<"Left">>, <<"Right", "Left">>, <<"Shoot", "Shoot">>}
WireInputEntries == {NetworkedPlayerInput_new(i, f) : i \in WireInputs, f \in WireFrames}
WireInputLists ==
    {<<>>} \cup {<<e>> : e \in WireInputEntries}
           \cup {<<e1, e2>> : e1 \in WireInputEntries, e2 \in WireInputEntries}
WireIds == {<<>>, <<0>>, <<0, 1>>}

WireMessages ==
    {NetworkMessage(t, <<>>) :
        t \in {"GetServerPlayerIDs", "GetOwnServerPlayerID", "ServerRequestHostForWorldData"}}
    \cup {NetworkMessage(t, world_bytes(len)) :
            t \in {"ClientSentWorld", "ServerSentWorld"}, len \in WireWorldLens}
    \cup {NetworkMessage(t, inputs) :
            t \in {"ClientSentPlayerInputs", "ServerSentPlayerInputs"},
            inputs \in WireInputLists}
    \cup {NetworkMessage(t, <<seq_num>>) :
            t \in {"ServerSideAck", "ClientSideAck"}, seq_num \in WireSeqNums}
    \cup {NetworkMessage("ServerSentPlayerIDs", ids) : ids \in WireIds}
    \cup {NetworkMessage("ClientConnectToOtherWorld", <<id>>) : id \in {0, 1}}

WireMessageTypes ==
    {SendOnce} \cup {ResendUntilAck(n) : n \in WireSeqNums}
               \cup {SendOnceButReceiveAck(n) : n \in WireSeqNums}

InitWire ==
    /\ BufIdle
    /\ PopIdle
    /\ GameIdle
    /\ NetIdle
    /\ WireIdle
    /\ TaskIdle

Wire_serialize ==
    \E msg \in WireMessages, msg_type \in WireMessageTypes, salt \in Salts :
        LET serialized == serialize(salt, msg, msg_type)
        IN /\ request = None
           /\ serialized.kind = "NonChunked"
           /\ request' = Some([msg |-> msg, msg_type |-> msg_type])
           /\ datagrams' = serialized.bytes
           /\ UNCHANGED <<collector, collected, combined, parsed, parse_panicked,
                          NotWire>>

\* the datagram is read into the MsgBuffer of the side that accepts its
\* message type and parsed there
Wire_parse ==
    /\ IsSome(request)
    /\ parsed = None
    /\ parsed' = Some(IF Unwrap(request).msg.type \in ServerSideTypes
                      THEN parse_on_server(MsgBuffer_recv(datagrams[1]))
                      ELSE parse_on_client(MsgBuffer_recv(datagrams[1])))
    /\ UNCHANGED <<request, datagrams, collector, collected, combined,
                   parse_panicked, NotWire>>

NextWire ==
    \/ Wire_serialize
    \/ Wire_parse

SpecWire == InitWire /\ [][NextWire]_vars

\* the same list of (frame, input set) entries
same_inputs(a, b) ==
    /\ Len(a) = Len(b)
    /\ \A i \in 1 .. Len(a) :
          a[i].frame = b[i].frame /\ Range(a[i].inputs) = Range(b[i].inputs)

\* the same variant with the same payload
same_message(a, b) ==
    /\ a.type = b.type
    /\ IF a.type \in {"ClientSentPlayerInputs", "ServerSentPlayerInputs"}
       THEN same_inputs(a.payload, b.payload)
       ELSE a.payload = b.payload

\* C13: for every message m that fits one datagram and every
\* NetworkMessageType t, parse(serialize(m, t)) is m: the same variant with
\* the same payload (ack seq-num, peer ids, world bytes, list of (frame,
\* input set) entries), whatever the salt byte; the parsed reliable flag
\* is set exactly for ResendUntilAck and SendOnceButReceiveAck, and the
\* parsed seq-num is then the one given to serialize.
C13_WireRoundTrip ==
    IsSome(parsed) =>
        LET m == Unwrap(request).msg
            t == Unwrap(request).msg_type
            p == Unwrap(parsed)
        IN /\ p.kind = "NonChunked"
           /\ same_message(p.msg, m)
           /\ p.reliable = (t.kind \in {"ResendUntilAck", "SendOnceButReceiveAck"})
           /\ p.reliable => p.seq_num = Some(t.seq_num)

(***************************************************************************)
(* Claims on SpecNet and SpecSrv: duplicates, input datagrams, peering.    *)
(***************************************************************************)
\* C14: delivery of a reliable datagram the server has already processed
\* is idempotent: the server sends the acknowledgement again and does not
\* process the message again, so a retransmitted GetServerPlayerIDs,
\* ClientConnectToOtherWorld or ClientSentWorld changes no session state
\* and is relayed no second time: the step adds the ack to what the server
\* has sent and changes nothing else of the server.
C14_DuplicateIdempotent ==
    [][\A bytes \in server_received \cap to_server :
          (bytes.reliable /\ server' = Server_update(server, bytes))
              => server' = Server_send_ack(server, bytes.seq_num, bytes.addr)]_vars

\* bytes of a packed input buffer: the length byte and 5 bytes an entry
packed_len(buffered_inputs) == 1 + 5 * Len(buffered_inputs)

\* C15: send_player_inputs reports Disconnected exactly when appending the
\* frame would make the packed unacknowledged-input buffer larger than the
\* payload of one datagram (MAX_UDP_PAYLOAD_LEN minus the header); in every
\* other case, the empty buffer included, the frame is appended to the
\* buffer and a datagram carrying the buffer is transmitted.
C15_DisconnectedWhenFull ==
    [][\A a \in Addrs, frame \in 1 .. MaxNetFrame :
          LET cs == connection_server[a]
              inp == NetworkedPlayerInput_new(<<>>, frame)
              full == packed_len(Append(cs.unack_input_buffer, inp))
                          > MAX_UDP_PAYLOAD_DATA_LENGTH
          IN (/\ connection_server'[a] # cs
              /\ connection_server'[a] = run_IndirectRequest(cs, inp))
                 => /\ (connection_server'[a].result = "Disconnected") <=> full
                    /\ ~full =>
                         /\ connection_server'[a].unack_input_buffer =
                                Append(cs.unack_input_buffer, inp)
                         /\ connection_server'[a].socket # cs.socket]_vars

\* C16: every ServerSentPlayerInputs datagram the server sends to a client
\* B carries the whole unacknowledged input buffer the server holds for B
\* at send time, that is after the incoming inputs were merged into it
\* (server.socket holds what the running update has sent).
C16_WholeBuffer ==
    \A d \in server.socket :
        d.msg.type = "ServerSentPlayerInputs"
            => d.msg.inputs = server.unack_input_buffer[d.addr]

\* C20: in every reachable state of the server each address in connections
\* has at most one peer, listed at most once, whatever ClientConnectToOtherWorld
\* datagrams arrive (repeated ones included).
C20_OnePeer == \A a \in Addrs : Len(server.connections[a]) <= 1

(***************************************************************************)
(* SpecLost: the server and its clock when the clients fall silent: the    *)
(* server reads requests, no acknowledgement ever arrives.  The server's   *)
(* loop calls update for ever and time passes, which the fairness          *)
(* conditions state.  The code keeps no count of the retransmissions of    *)
(* an entry (only its sent_time), so the count is not kept here either.    *)
(***************************************************************************)
\* seq-nums the server hands out in SpecLost
MaxLostServerSeq == 3

\* the server without the count of retransmissions
uncounted(s) ==
    [s EXCEPT !.non_input_pending_acks =
        [a \in Addrs |-> {[e EXCEPT !.retransmissions = 0] : e \in @[a]}]]

InitLost == InitNet

\* Server::update with a request of client a
Lost_Server_update(a) ==
    \E msg \in {GetServerPlayerIDs, ClientSentWorld}
                \cup {ClientConnectToOtherWorld(id) : id \in PlayerIDs} :
        LET updated == uncounted(Srv_update(serialize_reliable(a, 0, msg)))
        IN /\ server.up
           /\ updated.up
           /\ updated.sequence_number <= MaxLostServerSeq
           /\ server' = updated
           /\ UNCHANGED <<connection_server, received, server_received, relayed, NotNet>>

\* Server::update when recv_from returns WouldBlock
Lost_Server_WouldBlock ==
    /\ server.up
    /\ server' = uncounted(Server_handle_retransmissions([server EXCEPT !.socket = {}]))
    /\ UNCHANGED <<connection_server, received, server_received, relayed, NotNet>>

Lost_Advance ==
    \E d \in Delays :
        /\ server' = [server EXCEPT !.non_input_pending_acks =
                         [a \in Addrs |-> elapse(server.non_input_pending_acks[a], d,
                                                 Server_RETRY_TIMEOUT + 1)]]
        /\ UNCHANGED <<connection_server, received, server_received, relayed, NotNet>>

NextLost ==
    \/ \E a \in Addrs : Lost_Server_update(a)
    \/ Lost_Server_WouldBlock
    \/ Lost_Advance

SpecLost ==
    /\ InitLost
    /\ [][NextLost]_vars
    /\ WF_vars(Lost_Server_WouldBlock)
    /\ WF_vars(Lost_Advance)

\* the server holds nothing of client b any more: no pending entry, no
\* place in the peering map (neither its own list nor its partner's), no
\* session record
forgotten(b) ==
    /\ server.non_input_pending_acks[b] = {}
    /\ server.connections[b] = <<>>
    /\ \A a \in Addrs : b \notin Range(server.connections[a])
    /\ server.addr_to_player[b] = None

\* C17: when a reliable datagram the server holds pending for a client B
\* gets no acknowledgement (none arrives in SpecLost), the server
\* eventually removes the entry, declares B lost, takes B out of the
\* peering map together with its partner's entry for B, and removes B's
\* session record.
C17_ServerTimeout ==
    \A b \in Addrs : (server.non_input_pending_acks[b] # {}) ~> forgotten(b)

(***************************************************************************)
(* SpecSilent: the game loops of SpecGame when the joiner never sends an   *)
(* input: it asks for the host's world, may receive it, and its loop does  *)
(* not tick.  The host's loop is kept running: the macroquad loop runs     *)
(* the physics tick for ever.  The model follows the inputs up to frame    *)
(* MaxGameFrame; of a later tick of the host it keeps the position in the  *)
(* tick only, not the input the tick samples, sends and inserts.           *)
(***************************************************************************)
\* game.rs:466-488 for a frame past MaxGameFrame
Tick_untracked(c) ==
    LET multi == session_player_count[c] > 1
        insert_frame == IF multi THEN predicted[c].frame + 1
                        ELSE verified[c].frame + 1
    IN /\ game_state[c] = "Playing"
       /\ panicked[c] = NoPanic
       /\ pc[c] = "idle"
       /\ insert_frame > MaxGameFrame
       /\ curr_player' = [curr_player EXCEPT ![c] = <<>>]
       /\ pc' = [pc EXCEPT ![c] = "drain"]
       /\ UNCHANGED <<game_state, input_buffer, session_player_count, local_player_id,
                      verified, predicted, sent, world_sent, applied, panicked,
                      presses, NotGame>>

NextSilent ==
    \/ Tick_begin(Host)
    \/ Tick_untracked(Host)
    \/ Playing_ServerRequestHostForWorldData(Host)
    \/ Tick_end(Host)
    \/ ChoosePlayer_ServerSentPlayerInputs(Joiner)
    \/ ChoosePlayer_ServerSentWorld(Joiner)

SpecSilent ==
    /\ InitGame
    /\ [][NextSilent]_vars
    /\ WF_vars(Tick_begin(Host))
    /\ WF_vars(Tick_untracked(Host))
    /\ WF_vars(Tick_end(Host))

\* C18: in a two-player session in Playing, if the remote peer stops
\* sending inputs for ever (it does not send again and again), the client
\* eventually returns to single-player operation, in which its verified
\* simulation advances on local input alone.  Stated for the host, whose
\* peer is the joiner.
C18_DisconnectionFallback ==
    \/ []<><<sent'[Joiner] # sent[Joiner]>>_vars
    \/ (game_state[Host] = "Playing" /\ session_player_count[Host] > 1)
           ~> (session_player_count[Host] = 1)

(***************************************************************************)
(* SpecRun: the transport task of one client (ConnectionServer::run): the  *)
(* loop of run and the receive thread it spawns.  The game task makes      *)
(* requests and then drops request_sender; datagrams of the server arrive  *)
(* at any time, any number of times.  A thread that can take a step takes  *)
(* it (weak fairness); recv blocks until a datagram arrives or the socket  *)
(* reports an error, and neither has to happen.                            *)
(***************************************************************************)
\* requests the game task makes before it drops the channel
MaxRunSends == 2
\* the client whose transport runs
RunClient == "a1"
\* what the server can send the client
RunDatagrams ==
    {serialize_SendOnce(RunClient, ServerSideAck(n)) : n \in 0 .. MaxRunSends - 1}
    \cup {serialize_reliable(RunClient, n, ServerSentPlayerIDs({})) :
            n \in 0 .. MaxRunSends - 1}

InitRun == InitNet

\* client_conn.rs:182-226: a turn of the loop that finds a request
Run_request ==
    /\ run_pc = "loop"
    /\ request_channel = "open"
    /\ connection_server[RunClient].sequence_number < MaxRunSends
    /\ connection_server' = [connection_server EXCEPT ![RunClient] =
                                run_DirectRequest(@, GetServerPlayerIDs)]
    /\ UNCHANGED <<server, received, server_received, relayed, taskVars, NotTask>>

\* client_conn.rs:151-181: a turn of the loop that finds what the receive
\* thread has passed on
Run_received ==
    \E bytes \in received[RunClient] :
        /\ run_pc = "loop"
        /\ connection_server' = [connection_server EXCEPT ![RunClient] =
                                    run_received(@, bytes)]
        /\ UNCHANGED <<server, received, server_received, relayed, taskVars, NotTask>>

\* the game task ends: request_sender is dropped
Game_drop ==
    /\ request_channel = "open"
    /\ request_channel' = "dropped"
    /\ UNCHANGED <<netVars, run_pc, receive_pc, receive_buffer, NotTask>>

\* client_conn.rs:231-234: try_recv returns Disconnected, the loop breaks
\* and run waits in receive_thread.join()
Run_Disconnected ==
    /\ run_pc = "loop"
    /\ request_channel = "dropped"
    /\ run_pc' = "join"
    /\ UNCHANGED <<netVars, request_channel, receive_pc, receive_buffer, NotTask>>

\* client_conn.rs:240: join returns when the receive thread has ended
Run_join ==
    /\ run_pc = "join"
    /\ receive_pc = "ended"
    /\ run_pc' = "returned"
    /\ UNCHANGED <<netVars, request_channel, receive_pc, receive_buffer, NotTask>>

\* client_conn.rs:115-116: recv returns a datagram
Receive_recv_Ok ==
    \E bytes \in RunDatagrams :
        /\ receive_pc = "recv"
        /\ receive_pc' = "handle"
        /\ receive_buffer' = Some(bytes)
        /\ UNCHANGED <<netVars, request_channel, run_pc, NotTask>>

\* client_conn.rs:117-137: the datagram is parsed and passed to the loop
\* through ack_sender and msg_sender; the thread returns to recv
Receive_handle ==
    /\ receive_pc = "handle"
    /\ received' = [received EXCEPT ![RunClient] = @ \cup {Unwrap(receive_buffer)}]
    /\ receive_pc' = "recv"
    /\ receive_buffer' = None
    /\ UNCHANGED <<connection_server, server, server_received, relayed,
                   request_channel, run_pc, NotTask>>

\* client_conn.rs:139-142: recv returns an error, the thread ends
Receive_recv_Err ==
    /\ receive_pc = "recv"
    /\ receive_pc' = "ended"
    /\ UNCHANGED <<netVars, request_channel, run_pc, receive_buffer, NotTask>>

NextRun ==
    \/ Run_request
    \/ Run_received
    \/ Game_drop
    \/ Run_Disconnected
    \/ Run_join
    \/ Receive_recv_Ok
    \/ Receive_handle
    \/ Receive_recv_Err

SpecRun ==
    /\ InitRun
    /\ [][NextRun]_vars
    /\ WF_vars(Run_Disconnected)
    /\ WF_vars(Run_join)
    /\ WF_vars(Receive_handle)

\* C19: once the game task has dropped its request channel, the client's
\* transport task eventually terminates: run returns, its receive thread
\* having ended.
C19_TransportTerminates ==
    (request_channel = "dropped") ~> (run_pc = "returned" /\ receive_pc = "ended")

(***************************************************************************)
(* Claims on the peering the server keeps (SpecSrv).                       *)
(***************************************************************************)
\* the server's update of this step handled ClientConnectToOtherWorld(id)
\* from a without panicking
Connected(a, id) ==
    /\ server.up
    /\ server' = Srv_update(serialize_reliable(a, 0, ClientConnectToOtherWorld(id)))
    /\ server'.up

\* the datagrams of a socket that carry ServerRequestHostForWorldData
world_requests(socket) ==
    {d \in socket : d.msg.type = "ServerRequestHostForWorldData"}

\* C21: peering is symmetric: in every reachable server state B is in
\* connections[A] exactly if A is in connections[B]; and each processed
\* ClientConnectToOtherWorld(id) from A registers both directions and sends
\* one reliable ServerRequestHostForWorldData, kept in the general pending
\* table, to the address of id and none to A.
C21_SymmetricPeering ==
    /\ [](\A a, b \in Addrs :
             b \in Range(server.connections[a]) <=> a \in Range(server.connections[b]))
    /\ [][\A a \in Addrs, id \in PlayerIDs :
             Connected(a, id) =>
                 LET target == Unwrap(player_to_addr(server, id))
                 IN /\ target # a
                    /\ server'.connections[a] = Append(server.connections[a], target)
                    /\ server'.connections[target] =
                           Append(server.connections[target], a)
                    /\ \A d \in world_requests(server'.socket) :
                           /\ d.addr = target
                           /\ d.reliable
                           /\ d.seq_num = server.sequence_number
                           /\ map_has(server'.non_input_pending_acks[target], d.seq_num)
                    /\ Cardinality(world_requests(server'.socket)) = 1]_vars

\* the update that just ran peered two addresses and sent the request for
\* the world to one of them
C21_Witness ==
    \E a, b \in Addrs :
        /\ a # b
        /\ b \in Range(server.connections[a])
        /\ a \in Range(server.connections[b])
        /\ \E d \in world_requests(server.socket) : d.addr = b

(***************************************************************************)
(* SpecMalformed: datagrams that no serialize wrote.  The server reads     *)
(* them from either address (server.rs:229-258), the receive thread of a   *)
(* client from its socket (client_conn.rs:111-148).  A datagram is a       *)
(* header with any flag, seq-num, base seq-num, amount of chunks and       *)
(* discriminant, and a first data byte (the input count, the id count, the *)
(* player id, the low byte of an acknowledged seq-num), zero-filled by     *)
(* the MsgBuffer.  collected lists the receivers in the order in which     *)
(* they read, parsed holds the kind of the last parse result, combined     *)
(* what the receive thread has put on its two channels.                    *)
(***************************************************************************)
\* datagrams read in SpecMalformed
MaxMalformed == 2

\* the key of the client's collector in collector
ClientReceiver == "client"

malformed_datagram(reliable, seq_num, base_seq_num, amt_of_chunks, discriminator, first) ==
    <<0, reliable>> \o u16_to_le_bytes(seq_num) \o u16_to_le_bytes(base_seq_num)
    \o u16_to_le_bytes(amt_of_chunks) \o <<discriminator, first>>

\* the header fields and the first data byte of the datagrams: flag clear
\* and set, a base seq-num with and without a vector in the collector, no
\* chunks, one and two, a count that fits the payload and one that does not
MalformedBuffers(discriminators) ==
    { MsgBuffer_recv(malformed_datagram(r, s, b, n, d, f)) :
        r \in {0, 1}, s \in {0, 1}, b \in {0, U16_MAX}, n \in {0, 1, 2},
        d \in discriminators, f \in {0, 1, 100} }

\* discriminants: inputs, ack, connect (ids on the client), one of the
\* other side, one that is no message
ServerBuffers ==
    MalformedBuffers({discriminant("ClientSentPlayerInputs"), discriminant("ClientSideAck"),
                      discriminant("ClientConnectToOtherWorld"),
                      discriminant("ServerSideAck"), U8_MAX})
ClientBuffers ==
    MalformedBuffers({discriminant("ServerSentPlayerInputs"), discriminant("ServerSideAck"),
                      discriminant("ServerSentPlayerIDs"),
                      discriminant("ClientSideAck"), U8_MAX})

\* the NetworkMessage of a parse as the record the server model handles
to_Msg(msg) ==
    Msg(msg.type,
        IF msg.type \in {"ServerSideAck", "ClientSideAck", "ClientConnectToOtherWorld"}
        THEN msg.payload[1] ELSE 0,
        IF msg.type \in {"ClientSentPlayerInputs", "ServerSentPlayerInputs"}
        THEN msg.payload ELSE <<>>,
        IF msg.type = "ServerSentPlayerIDs" THEN Range(msg.payload) ELSE {})

to_datagram(src, message) ==
    [addr |-> src, reliable |-> message.reliable,
     seq_num |-> IF IsSome(message.seq_num) THEN Unwrap(message.seq_num) ELSE 0,
     msg |-> to_Msg(message.msg)]

\* Server::update for the bytes recv_from put in msg_buffer: colls is
\* pending_chunked_msgs.  The result holds the server and the collectors
\* after the call, the parse result and the panic that ended the process.
Server_update_bytes(s, colls, src, bytes) ==
    LET known == IF IsSome(s.addr_to_player[src]) THEN s
                 ELSE create_new_connection(s, src)
        coll == IF IsSome(s.addr_to_player[src]) THEN colls[src]
                ELSE ChunkedMessageCollector_default
        msg == parse_on_server(bytes)
        out(updated, c, panic) ==
            [server |-> IF panic # NoPanic THEN [updated EXCEPT !.up = FALSE]
                        ELSE IF updated.up THEN Server_handle_retransmissions(updated)
                        ELSE updated,
             collector |-> [colls EXCEPT ![src] = c],
             msg |-> msg, panicked |-> panic]
    IN CASE msg.kind = "panic" -> out(known, coll, msg.what)
         [] msg.kind = "Err" -> out(known, coll, NoPanic)
         [] msg.kind = "NonChunked" ->
                out(handle_message(known, to_datagram(src, msg), src), coll, NoPanic)
         [] msg.kind = "ChunkOfMessage" ->
                LET acked == Server_send_ack(known, msg.seq_num, src)
                    combining == try_combine(collect(coll, msg))
                IN IF collect_panics(msg)
                   THEN out(acked, coll, "index out of bounds")
                   ELSE IF combining.panicked # NoPanic
                   THEN out(acked, combining.collector, combining.panicked)
                   ELSE IF IsSome(combining.ret)
                   THEN out(handle_message(acked,
                                to_datagram(src, Unwrap(combining.ret)), src),
                            combining.collector, NoPanic)
                   ELSE out(acked, combining.collector, NoPanic)

\* what a parse result leaves in parsed: its kind, and the assertion of a panic
parse_kind(msg) == IF msg.kind \in {"Err", "panic"} THEN msg ELSE [kind |-> msg.kind]

InitMalformed ==
    /\ BufIdle
    /\ PopIdle
    /\ GameIdle
    /\ NetIdle
    /\ TaskIdle
    /\ request = None
    /\ datagrams = <<>>
    /\ collector = [r \in Addrs \cup {ClientReceiver} |-> ChunkedMessageCollector_default]
    /\ collected = <<>>
    /\ combined = <<>>
    /\ parsed = None
    /\ parse_panicked = NoPanic

Malformed_Server_update(a) ==
    \E bytes \in ServerBuffers :
        LET updated == Server_update_bytes([server EXCEPT !.socket = {}], collector, a, bytes)
        IN /\ server.up
           /\ Len(collected) < MaxMalformed
           /\ server' = updated.server
           /\ collector' = updated.collector
           /\ parsed' = Some(parse_kind(updated.msg))
           /\ parse_panicked' = IF updated.panicked # NoPanic THEN updated.panicked
                                ELSE parse_panicked
           /\ collected' = Append(collected, a)
           /\ UNCHANGED <<request, datagrams, combined, connection_server, received,
                          server_received, relayed, bufVars, popVars, gameVars, taskVars>>

\* one pass of the receive thread's loop: a message and its seq-num go to
\* msg_sender and ack_sender, a chunk to the collector; a panic ends the thread
Malformed_Client_receive ==
    \E bytes \in ClientBuffers :
        LET msg == parse_on_client(bytes)
            coll == collector[ClientReceiver]
            combining == try_combine(collect(coll, msg))
            panic ==
                CASE msg.kind = "panic" -> msg.what
                  [] msg.kind = "ChunkOfMessage" /\ collect_panics(msg) -> "index out of bounds"
                  [] msg.kind = "ChunkOfMessage" -> combining.panicked
                  [] OTHER -> NoPanic
            to_channels ==
                CASE msg.kind = "NonChunked" ->
                        <<[ack |-> msg.seq_num, msg |-> Some(to_Msg(msg.msg))]>>
                  [] msg.kind = "ChunkOfMessage" ->
                        <<[ack |-> Some(msg.seq_num),
                           msg |-> IF panic = NoPanic /\ IsSome(combining.ret)
                                   THEN Some(to_Msg(Unwrap(combining.ret).msg))
                                   ELSE None]>>
                  [] OTHER -> <<>>
        IN /\ receive_pc = "recv"
           /\ Len(collected) < MaxMalformed
           /\ parsed' = Some(parse_kind(msg))
           /\ parse_panicked' = IF panic # NoPanic THEN panic ELSE parse_panicked
           /\ receive_pc' = IF panic # NoPanic THEN "panicked" ELSE "recv"
           /\ combined' = combined \o to_channels
           /\ collector' = IF msg.kind = "ChunkOfMessage" /\ ~collect_panics(msg)
                           THEN [collector EXCEPT ![ClientReceiver] = combining.collector]
                           ELSE collector
           /\ collected' = Append(collected, ClientReceiver)
           /\ UNCHANGED <<request, datagrams, netVars, bufVars, popVars, gameVars,
                          request_channel, run_pc, receive_buffer>>

NextMalformed ==
    \/ \E a \in Addrs : Malformed_Server_update(a)
    \/ Malformed_Client_receive

SpecMalformed == InitMalformed /\ [][NextMalformed]_vars

\* the sessions, pending tables, buffers and collectors of the server
session_state ==
    <<server.addr_to_player, server.connections, server.non_input_pending_acks,
      server.unack_input_seq_nums_to_frame, server.unack_input_buffer,
      server.sequence_number, collector>>

\* C22: a malformed datagram never crashes the receiver and changes no
\* state: for every buffer (unknown discriminant, a count byte larger than
\* the payload holds, a chunk header with any base seq-num and amount of
\* chunks) the parse on the server or on the client yields a message or an
\* error, never a panic, and an error is dropped with the sessions, the
\* pending tables and the buffers as they were.
C22_MalformedDropped ==
    /\ [](parse_panicked = NoPanic)
    /\ [][(collected' # collected /\ parsed' = Some(Parsed_Err))
             => session_state' = session_state]_vars

(***************************************************************************)
(* Claims on update_player_count, insert_other_player_inp and the          *)
(* predicted iterator (SpecBuf).                                           *)
(***************************************************************************)
\* this step is the call update_player_count(local_player, 2, curr_verified_frame)
Called_update_player_count(local_player, curr_verified_frame) ==
    /\ ib' = update_player_count(ib, local_player, 2, curr_verified_frame)
    /\ ret' = None
    /\ UNCHANGED <<lastPopped, popVars, NotBuf>>

\* the entries of frames from min_frame on, in order, each with the other
\* player's input in either slot
exchanged_from(frames, min_frame) ==
    LET kept == SelectSeq(frames, LAMBDA e : ~(e.frame < min_frame))
    IN [i \in 1 .. Len(kept) |->
          [frame |-> kept[i].frame,
           inputs |-> [p \in PlayerSlots |-> kept[i].inputs[(p + 1) % MAX_PLAYER_COUNT]]]]

\* C23: update_player_count with a local slot different from the current
\* one drops every buffered entry whose frame is < curr_verified_frame + 1,
\* exchanges the two slots in every remaining entry, and sets local_player
\* and player_count to the arguments; with the local slot unchanged it
\* leaves input_frames untouched.
C23_UpdatePlayerCount ==
    [][\A local_player \in PlayerSlots, curr_verified_frame \in 0 .. MaxFrame :
          Called_update_player_count(local_player, curr_verified_frame) =>
              /\ ib'.local_player = local_player
              /\ ib'.player_count = 2
              /\ ib'.input_frames =
                    IF local_player # ib.local_player
                    THEN exchanged_from(ib.input_frames, curr_verified_frame + 1)
                    ELSE ib.input_frames]_vars

\* the local slot has changed to Player2 with entries left in the buffer:
\* one holds the local input in slot Player2 and the remote one in slot
\* Player1, and the buffer no longer starts at frame 1
C23_Witness ==
    /\ ib.local_player = Player2
    /\ ib.player_count = 2
    /\ ib.input_frames # <<>>
    /\ Head(ib.input_frames).frame > 1
    /\ \E i \in 1 .. Len(ib.input_frames) :
          /\ ib.input_frames[i].inputs[Player2] = Some(<<"Left">>)
          /\ ib.input_frames[i].inputs[Player1] = Some(<<"Right">>)

\* C24: after update_player_count in which the local slot changes,
\* last_verified_inputs is [None, None], so that no input verified before
\* the call fills a predicted frame afterwards.
C24_ResetLastVerified ==
    [][\A local_player \in PlayerSlots, curr_verified_frame \in 0 .. MaxFrame :
          (/\ Called_update_player_count(local_player, curr_verified_frame)
           /\ local_player # ib.local_player)
              => ib'.last_verified_inputs = NoInputs]_vars

\* this step is the call insert_other_player_inp(inp, frame)
Called_insert_other_player_inp(inp, frame) ==
    /\ ib' = insert_other_player_inp(ib, inp, frame)
    /\ ret' = None
    /\ UNCHANGED <<lastPopped, popVars, NotBuf>>

\* the slot of player_id in the entry of b for frame, None when b has no
\* such entry
slot_at(b, frame, player_id) ==
    LET entries == {i \in 1 .. Len(b.input_frames) : b.input_frames[i].frame = frame}
    IN IF entries = {} THEN None
       ELSE b.input_frames[CHOOSE i \in entries : TRUE].inputs[player_id]

\* the buffered frames whose local slot is filled
local_frames(b) ==
    {b.input_frames[i].frame : i \in {j \in 1 .. Len(b.input_frames) :
                                         IsSome(b.input_frames[j].inputs[b.local_player])}}

\* C25: insert_other_player_inp(inp, frame) leaves the InputBuffer as it is
\* when frame is strictly earlier than the earliest buffered frame whose
\* local slot is filled; for any other frame > 0 it sets the remote slot of
\* that frame and changes no local slot and no other frame's remote slot.
C25_InsertOther ==
    [][\A inp \in RemoteInputVals, frame \in Frames :
          Called_insert_other_player_inp(inp, frame) =>
              IF local_frames(ib) # {} /\ \A f \in local_frames(ib) : frame < f
              THEN ib' = ib
              ELSE LET remote == (ib.local_player + 1) % MAX_PLAYER_COUNT
                   IN /\ slot_at(ib', frame, remote) = Some(inp)
                      /\ \A f \in 0 .. (MaxFrame + 1), p \in PlayerSlots :
                            (f # frame \/ p # remote)
                                => slot_at(ib', f, p) = slot_at(ib, f, p)
                      /\ ib'.local_player = ib.local_player
                      /\ ib'.player_count = ib.player_count
                      /\ ib'.last_verified_inputs = ib.last_verified_inputs]_vars

\* a remote input is buffered for a frame that is not earlier than the
\* earliest frame with a local input, next to a frame the fill loop made
C25_Witness ==
    /\ local_frames(ib) # {}
    /\ \E i \in 1 .. Len(ib.input_frames) :
          /\ ib.input_frames[i].inputs[(ib.local_player + 1) % MAX_PLAYER_COUNT]
                 = Some(<<"Right">>)
          /\ \E f \in local_frames(ib) : f < ib.input_frames[i].frame
    /\ \E i \in 1 .. Len(ib.input_frames) : ib.input_frames[i].inputs = NoInputs

(***************************************************************************)
(* SpecIter: SpecBuf with the predicted iterator among the calls.  After   *)
(* the call ret holds, under the field yielded, the PlayerInputs the       *)
(* iterator yields, in order.                                              *)
(***************************************************************************)
InitIter == InitBuf

Call_excluding_iter_after_last_verified ==
    /\ ret' = Some([yielded |-> excluding_iter_after_last_verified(ib)])
    /\ UNCHANGED <<ib, lastPopped, popVars, NotBuf>>

NextIter ==
    \/ Call_insert_curr_player_inp
    \/ Call_insert_other_player_inp
    \/ Call_pop_next_verified_frame
    \/ Call_update_player_count
    \/ Call_excluding_iter_after_last_verified

SpecIter == InitIter /\ [][NextIter]_vars

\* ret holds what the iterator yielded
IsYielded(r) == IsSome(r) /\ "yielded" \in DOMAIN Unwrap(r)

\* C26: excluding_iter_after_last_verified yields every buffered frame once,
\* in buffer order, and leaves the buffer as it is; in each yielded frame a
\* slot that is present keeps its value, and an absent slot holds
\* last_verified_inputs of that slot if both slots of last_verified_inputs
\* are present, and is absent otherwise.
C26_PredictedIter ==
    [][Call_excluding_iter_after_last_verified =>
          LET yielded == Unwrap(ret').yielded
          IN /\ ib' = ib
             /\ Len(yielded) = Len(ib.input_frames)
             /\ \A i \in 1 .. Len(yielded) :
                   /\ yielded[i].frame = ib.input_frames[i].frame
                   /\ \A p \in PlayerSlots :
                         LET slot == ib.input_frames[i].inputs[p]
                         IN yielded[i].inputs[p] =
                               IF slot # None THEN slot
                               ELSE IF \A q \in PlayerSlots :
                                          ib.last_verified_inputs[q] # None
                                    THEN ib.last_verified_inputs[p]
                                    ELSE None]_vars

\* the iterator has yielded a frame with a slot filled from
\* last_verified_inputs next to a slot the buffer holds
C26_Witness ==
    /\ IsYielded(ret)
    /\ \E i \in 1 .. Len(ib.input_frames), p, q \in PlayerSlots :
          /\ ib.input_frames[i].inputs[p] = None
          /\ Unwrap(ret).yielded[i].inputs[p] = ib.last_verified_inputs[p]
          /\ ib.last_verified_inputs[p] # None
          /\ ib.input_frames[i].inputs[q] # None
          /\ ib.input_frames[i].inputs[q] # ib.last_verified_inputs[q]

(***************************************************************************)
(* Claims on the join handoff and on the two arenas (SpecGame).            *)
(***************************************************************************)
\* the frame of the host's verified simulation when it first handled
\* ServerRequestHostForWorldData: the lowest frame of an uploaded world
snapshot_frame ==
    CHOOSE f \in {d.frame : d \in world_sent} : \A d \in world_sent : f <= d.frame

\* C27: when the joiner handles ServerSentWorld it enters Playing with both
\* arenas equal to a verified state the host uploaded, at its frame F, with
\* local slot Player2, player count 2 and no buffered frame <= F; and from
\* the moment the host handles ServerRequestHostForWorldData its player
\* count is 2 and its verified simulation does not advance past the frame
\* F of that moment before the joiner's input for F + 1 is in the buffer.
C27_JoinHandoff ==
    /\ [][ChoosePlayer_ServerSentWorld(Joiner) =>
             /\ game_state'[Joiner] = "Playing"
             /\ verified'[Joiner] \in world_sent
             /\ predicted'[Joiner] = verified'[Joiner]
             /\ local_player_id'[Joiner] = Player2
             /\ session_player_count'[Joiner] = 2
             /\ input_buffer'[Joiner].player_count = 2
             /\ input_buffer'[Joiner].local_player = Player2
             /\ \A i \in 1 .. Len(input_buffer'[Joiner].input_frames) :
                   input_buffer'[Joiner].input_frames[i].frame > verified'[Joiner].frame]_vars
    /\ [](world_sent # {} =>
             /\ session_player_count[Host] = 2
             /\ input_buffer[Host].player_count = 2
             /\ verified[Host].frame > snapshot_frame =>
                   \E i \in 1 .. Len(applied[Host]), e \in sent[Joiner] :
                       /\ applied[Host][i].frame = snapshot_frame + 1
                       /\ e.frame = snapshot_frame + 1
                       /\ applied[Host][i].inputs[Player2] = Some(e.inputs))

\* C28: in every reachable state of the client game loop each buffered
\* entry used to advance the predicted simulation has frame ==
\* predicted.frame + 1 immediately before the advance (the debug_assert of
\* game.rs:596 never fails): the predicted simulation never advances across
\* a gap in the buffered frames.
C28_NoPredictedGap == \A c \in Clients : panicked[c] # "predicted frame"

\* the locals of main that the loops at the end of c's tick start from
tick_locals(c) ==
    [ input_buffer         |-> input_buffer[c],
      local_player_id      |-> local_player_id[c],
      session_player_count |-> session_player_count[c],
      curr_player          |-> curr_player[c],
      verified             |-> verified[c],
      predicted            |-> predicted[c],
      sent                 |-> sent[c],
      applied              |-> applied[c],
      panicked             |-> panicked[c],
      new_verified_state   |-> FALSE ]

UnknownAckAtServer(bytes) ==
    /\ bytes.msg.type = "ClientSideAck"
    /\ ~map_has(server.non_input_pending_acks[bytes.addr], bytes.msg.n)
    /\ ~map_has(server.unack_input_seq_nums_to_frame[bytes.addr], bytes.msg.n)
    /\ server.up
    /\ server' = Server_update(server, bytes)
    /\ server_received' = server_received \cup {bytes}
    /\ connection_server' = connection_server

\* the datagram is an acknowledgement that client a reads while the seq-num
\* it names is in neither table of its ConnectionServer
UnknownAckAtClient(a, bytes) ==
    /\ bytes.addr = a
    /\ bytes.msg.type = "ServerSideAck"
    /\ ~map_has(connection_server[a].pending_acks, bytes.msg.n)
    /\ ~map_has(connection_server[a].unack_input_seq_nums_to_frame, bytes.msg.n)
    /\ connection_server' = [connection_server EXCEPT ![a] = run_received(@, bytes)]
    /\ received' = [received EXCEPT ![a] = @ \cup {bytes}]
    /\ server' = server

\* on the wire between the clients and the server, an acknowledgement
\* whose seq-num is in neither table of its reader changes none of the
\* reader's tables: the server's, and the pending table, the unacked input
\* buffer and the seq-to-frame table of a client's ConnectionServer
UnknownAckNoOp_Net ==
    [][/\ \A bytes \in to_server :
             UnknownAckAtServer(bytes) =>
                 /\ server'.non_input_pending_acks = server.non_input_pending_acks
                 /\ server'.unack_input_buffer = server.unack_input_buffer
                 /\ server'.unack_input_seq_nums_to_frame =
                        server.unack_input_seq_nums_to_frame
       /\ \A a \in Addrs : \A bytes \in server.socket :
             UnknownAckAtClient(a, bytes) =>
                 /\ connection_server'[a].pending_acks = connection_server[a].pending_acks
                 /\ connection_server'[a].unack_input_buffer =
                        connection_server[a].unack_input_buffer
                 /\ connection_server'[a].unack_input_seq_nums_to_frame =
                        connection_server[a].unack_input_seq_nums_to_frame]_vars

\* client a has read an acknowledgement for a seq-num it has never used
\* while an entry of its own is pending
UnknownAckAtClient_Reached ==
    \E a \in Addrs :
        /\ \E bytes \in received[a] :
              /\ bytes.msg.type = "ServerSideAck"
              /\ bytes.msg.n >= connection_server[a].sequence_number
              /\ ~map_has(connection_server[a].unack_input_seq_nums_to_frame, bytes.msg.n)
        /\ connection_server[a].pending_acks # {}

\* C30: an ack whose seq-num is in neither the general pending table nor
\* the input seq-num table of the acking address is a no-op: when the
\* server has handled it, the pending tables, the unacked input buffers and
\* the seq-to-frame tables of every address are what they were.
C30_UnknownAckNoOp ==
    [][\A a \in Addrs, seq_num \in 0 .. (MaxServerSeq - 1) :
          ( /\ Srv_ClientSideAck(a, seq_num)
            /\ ~map_has(server.non_input_pending_acks[a], seq_num)
            /\ ~map_has(server.unack_input_seq_nums_to_frame[a], seq_num) ) =>
              /\ server'.non_input_pending_acks = server.non_input_pending_acks
              /\ server'.unack_input_buffer = server.unack_input_buffer
              /\ server'.unack_input_seq_nums_to_frame =
                     server.unack_input_seq_nums_to_frame]_vars

\* the update that has just ended handled an ack from a for a seq-num the
\* server has not issued yet (its reply is the one datagram sent), while a
\* general pending entry, unacknowledged input frames and an input seq-num
\* are kept for a
C30_Witness ==
    \E a \in Addrs, seq_num \in 0 .. (MaxServerSeq - 1) :
        /\ server.socket = {serialize_SendOnce(a, ServerSideAck(seq_num))}
        /\ seq_num >= server.sequence_number
        /\ server.non_input_pending_acks[a] # {}
        /\ server.unack_input_buffer[a] # <<>>
        /\ server.unack_input_seq_nums_to_frame[a] # {}


(***************************************************************************)
(* Claims on the seq-num arithmetic: the wrap of the u16 in the collector. *)
(***************************************************************************)
\* the seq-nums of the chunks of the request, in the order of the chunks
chunk_seq_nums_in_order ==
    [i \in 1 .. Len(datagrams) |->
        (Unwrap(request).msg_type.seq_num + i - 1) % U16_RANGE]

\* C33: a chunked message whose chunk seq-nums wrap past 65535 is
\* reassembled like any other: collect fails for no base seq-num, and once
\* its N chunks have been collected, each once, try_combine has yielded the
\* message built from the chunks in the order S0, S0+1, ... (mod 2^16).
C33_WrapAssembly ==
    (/\ IsSome(request)
     /\ Unwrap(request).msg_type.seq_num + Len(datagrams) - 1 >= U16_RANGE)
        => /\ parse_panicked = NoPanic
           /\ (/\ Len(collected) = Len(datagrams)
               /\ Range(collected) = chunk_seq_nums)
                 => /\ Len(combined) = 1
                    /\ combined[1].seq_nums = chunk_seq_nums_in_order


(***************************************************************************)
(* Claims on SpecSrv: the frame recorded for an input datagram, and the    *)
(* ClientConnectToOtherWorld that names no session.                        *)
(***************************************************************************)
\* C36: for every input datagram the server has sent to a peer B with
\* seq-num S that B has not acknowledged, the frame recorded for S in B's
\* seq-to-frame table is the highest frame the datagram contains, so that
\* B's ack for S releases no frame that the datagram did not carry.
C36_RecordedFrame ==
    \A d \in relayed :
        map_get(server.unack_input_seq_nums_to_frame[d.addr], d.seq_num).frame
            = highest_frame(d)

\* the server reads a ClientConnectToOtherWorld(id) from a known address a
\* where id is the id of a itself or the id of no address
Called_connect_without_session(a, id) ==
    /\ IsSome(server.addr_to_player[a])
    /\ \/ server.addr_to_player[a] = Some(id)
       \/ \A b \in Addrs : server.addr_to_player[b] # Some(id)
    /\ server.up
    /\ server' = Srv_update(serialize_reliable(a, 0, ClientConnectToOtherWorld(id)))

\* C39: a ClientConnectToOtherWorld that names a peer id that has no
\* session, or the sender's own id, does not terminate the server and
\* leaves the peering map and all the pending tables unchanged.
C39_ConnectWithoutSession ==
    [][\A a \in Addrs, id \in PlayerIDs :
          Called_connect_without_session(a, id) =>
              /\ server'.up
              /\ server'.connections = server.connections
              /\ server'.non_input_pending_acks = server.non_input_pending_acks]_vars


(***************************************************************************)
(* SpecInputs: the server of a running session.  a1 hosts, a2 has joined   *)
(* and the world request is acknowledged; from then on the server reads    *)
(* the ClientSentPlayerInputs datagrams of both, in any order and any      *)
(* number of times, and the acknowledgements of what it relays.            *)
(***************************************************************************)
\* seq-nums the server hands out in SpecInputs
MaxInputSeq == 4

\* the server once a2 has connected to a1 and a1 has acknowledged the
\* ServerRequestHostForWorldData
Server_peered ==
    LET known == create_new_connection(create_new_connection(Server_new, "a1"), "a2")
        connected == create_player_conn_from_to_host(known, "a2", "a1")
        acknowledged == handle_clients_ack(connected, 0, "a1")
    IN [acknowledged EXCEPT !.socket = {}]

InitInputs ==
    /\ BufIdle
    /\ PopIdle
    /\ GameIdle
    /\ WireIdle
    /\ TaskIdle
    /\ connection_server = [a \in Addrs |-> ConnectionServer_new(a)]
    /\ server = Server_peered
    /\ received = [a \in Addrs |-> {}]
    /\ server_received = {}
    /\ relayed = {}

Inputs_ClientSentPlayerInputs(a) ==
    \E inputs \in InputDatagrams :
        LET updated == Srv_update(serialize_reliable(a, 0, ClientSentPlayerInputs(inputs)))
        IN /\ server.up
           /\ updated.sequence_number <= MaxInputSeq
           /\ server' = updated
           /\ relayed' = Srv_relayed(updated)
           /\ UNCHANGED <<connection_server, received, server_received, NotNet>>

Inputs_ClientSideAck(a) ==
    \E seq_num \in 0 .. (MaxInputSeq - 1) :
        LET updated == Srv_update(serialize_reliable(a, seq_num, ClientSideAck(seq_num)))
        IN /\ server.up
           /\ server' = updated
           /\ relayed' = Srv_relayed(updated)
           /\ UNCHANGED <<connection_server, received, server_received, NotNet>>

NextInputs ==
    \/ \E a \in Addrs : Inputs_ClientSentPlayerInputs(a)
    \/ \E a \in Addrs : Inputs_ClientSideAck(a)

SpecInputs == InitInputs /\ [][NextInputs]_vars

\* the frames of a BufferedNetworkedPlayerInputs are strictly ascending
AscendingFrames(buffered_inputs) ==
    \A i \in 1 .. Len(buffered_inputs) - 1 :
        buffered_inputs[i].frame < buffered_inputs[i + 1].frame

\* C35: in every reachable state each unacked input buffer, the client's
\* own and the one the server keeps for each destination, holds strictly
\* ascending frames with no frame twice, whatever the order, duplication
\* or loss of the incoming ClientSentPlayerInputs datagrams and however
\* the acks interleave.
C35_AscendingUnacked ==
    \A a \in Addrs :
        /\ AscendingFrames(server.unack_input_buffer[a])
        /\ AscendingFrames(connection_server[a].unack_input_buffer)


(***************************************************************************)
(* Claims on SpecNet: whose seq-num a datagram carries.                    *)
(***************************************************************************)
\* the datagrams of a socket that carry a seq-num in their header
with_seq_num(socket) == {d \in socket : d.reliable}

\* C32: each datagram that carries a seq-num takes the next seq-num of its
\* sender, so no two datagrams of one sender to one destination carry the
\* same seq-num: an input datagram shares its seq-num with no other input
\* datagram and with no reliable datagram, and the ack for one datagram
\* cannot be taken for the ack of another.
C32_NextSeqNum ==
    /\ \A a \in Addrs : \A d1, d2 \in with_seq_num(connection_server[a].socket) :
          d1.seq_num = d2.seq_num => d1 = d2
    /\ \A d1, d2 \in with_seq_num(server.socket) :
          (d1.addr = d2.addr /\ d1.seq_num = d2.seq_num) => d1 = d2

\* C37: a client's entry for seq-num S leaves pending_acks only if the
\* server has received the client's datagram with seq-num S, or if the
\* retry timeout dropped it; the ack the client sends for a server
\* datagram numbered S, which the server acknowledges back, does not make
\* the client drop its own pending message numbered S.
C37_OwnPendingKept ==
    [][\A a \in Addrs : \A e \in connection_server[a].pending_acks :
          ~map_has(connection_server'[a].pending_acks, e.seq_num)
              => \/ e.bytes \in server_received'
                 \/ e.seq_num \in connection_server'[a].dropped]_vars


(***************************************************************************)
(* Claims on SpecBuf and SpecGame: contiguity of the buffered frames and   *)
(* the frames of the two simulations at the end of a tick.                 *)
(***************************************************************************)
\* C38: in every reachable state the InputBuffer is contiguous: each
\* buffered frame is the previous buffered frame + 1, after any sequence
\* of local inserts, remote inserts and pops, an insert into the empty
\* buffer followed by the insert of an earlier frame included.
C38_Contiguous ==
    \A i \in 1 .. Len(ib.input_frames) - 1 :
        ib.input_frames[i + 1].frame = ib.input_frames[i].frame + 1


\* C40: in a two-player session, at the end of every physics tick
\* predicted.frame >= verified.frame, and predicted.frame is the frame of
\* the last buffered entry when the buffer is not empty: the predicted
\* simulation has been advanced again from the verified state through
\* every buffered frame.
C40_PredictedAtBack ==
    [][\A c \in Clients :
          (Tick_end(c) /\ session_player_count[c] = 2) =>
              LET frames == input_buffer'[c].input_frames
              IN /\ predicted'[c].frame >= verified'[c].frame
                 /\ frames # <<>> => predicted'[c].frame = frames[Len(frames)].frame]_vars


(***************************************************************************)
(* SpecPending: the pending tables with the bytes they store.  A client    *)
(* and the server each serialize reliable messages, worlds around the      *)
(* chunking boundary included, and keep every datagram under a seq-num;    *)
(* the counters start at 0 or just before their wrap-around.  No datagram  *)
(* is delivered.                                                           *)
(***************************************************************************)
\* calls of send_reliable and send_and_resend_until_ack in a behaviour
MaxPendingSends == 2
\* world payloads: one byte below the data length of a datagram, the data
\* length itself, one byte above it, and three chunks
PendingWorldLens ==
    {MAX_UDP_PAYLOAD_DATA_LENGTH - 1, MAX_UDP_PAYLOAD_DATA_LENGTH,
     MAX_UDP_PAYLOAD_DATA_LENGTH + 1, 2 * MAX_UDP_PAYLOAD_DATA_LENGTH + 1}
\* the client's u8 counter and the server's u16 counter when the first
\* message is sent
ClientSeqStarts == {0, U8_MAX}
ServerSeqStarts == {0, U16_MAX}

\* the seq-num in the header of a datagram
header_seq_num(bytes) ==
    u16_from_le_bytes(byte_at(bytes, SEQ_NUM_BYTE_POS), byte_at(bytes, SEQ_NUM_BYTE_POS + 1))

\* client_conn.rs:285-291 and 308-313: socket.send, pending_acks.insert
\* under the counter, the counter advanced
send_and_insert(cs, msg) ==
    [ cs EXCEPT
        !.socket = @ \cup {[addr |-> cs.addr, bytes |-> msg]},
        !.pending_acks = map_insert(@, PendingEntry(cs.sequence_number, msg)),
        !.sequence_number = (@ + 1) % U8_RANGE ]

\* for msg in chunks.bytes, with the debug_assert on the low byte of the
\* seq-num
RECURSIVE send_reliable_chunks(_, _)
send_reliable_chunks(st, chunks) ==
    IF chunks = <<>> THEN st
    ELSE IF byte_at(Head(chunks), SEQ_NUM_BYTE_POS) # st.cs.sequence_number
    THEN [st EXCEPT !.panicked = "msg[SEQ_NUM_BYTE_POS] == self.sequence_number"]
    ELSE send_reliable_chunks([st EXCEPT !.cs = send_and_insert(@, Head(chunks))],
                              Tail(chunks))

\* ConnectionServer::send_reliable on the bytes serialize returns: the
\* ConnectionServer after the call and the assertion that ended it
send_reliable_serialized(cs, salt, network_msg) ==
    LET serialized_message ==
            serialize(salt, network_msg, ResendUntilAck(cs.sequence_number))
    IN CASE serialized_message.kind = "panic" ->
                [cs |-> cs, panicked |-> serialized_message.bytes]
         [] serialized_message.kind = "Chunked" ->
                send_reliable_chunks([cs |-> cs, panicked |-> NoPanic],
                                     serialized_message.bytes)
         [] OTHER ->
                [cs |-> send_and_insert(cs, serialized_message.bytes[1]),
                 panicked |-> NoPanic]

\* server.rs:429-444: for msg in chunks.bytes
RECURSIVE send_and_resend_chunks(_, _, _)
send_and_resend_chunks(s, chunks, dst) ==
    IF chunks = <<>> \/ ~s.up THEN s
    ELSE LET seq_num == s.sequence_number
             msg == Head(chunks)
         IN IF header_seq_num(msg) # seq_num
            THEN [get_seq_num(s) EXCEPT !.up = FALSE]
            ELSE send_and_resend_chunks(
                    [ get_seq_num(s) EXCEPT
                        !.socket = @ \cup {[addr |-> dst, bytes |-> msg]},
                        !.non_input_pending_acks[dst] =
                            map_insert(@, PendingEntry(seq_num, msg)) ],
                    Tail(chunks), dst)

\* Server::send_and_resend_until_ack on the bytes serialize returns
send_and_resend_until_ack_serialized(s, salt, msg, dst) ==
    LET serialized_msg == serialize(salt, msg, ResendUntilAck(s.sequence_number))
    IN CASE serialized_msg.kind = "panic" -> [s EXCEPT !.up = FALSE]
         [] serialized_msg.kind = "Chunked" ->
                send_and_resend_chunks(s, serialized_msg.bytes, dst)
         [] OTHER ->
                [ get_seq_num(s) EXCEPT
                    !.socket = @ \cup {[addr |-> dst, bytes |-> serialized_msg.bytes[1]]},
                    !.non_input_pending_acks[dst] =
                        map_insert(@, PendingEntry(s.sequence_number,
                                                   serialized_msg.bytes[1])) ]

\* what serialize produced for the call: its datagrams, none when it panicked
serialized_datagrams(salt, msg, seq_num) ==
    LET serialized == serialize(salt, msg, ResendUntilAck(seq_num))
    IN IF serialized.kind = "panic" THEN <<>> ELSE serialized.bytes

\* the calls made so far, counted by their first datagram
pending_sends ==
    Cardinality({d \in connection_server[RunClient].socket \cup server.socket :
                    LET header == Unwrap(parse_header(d.bytes))
                    IN ~header.is_chunked
                       \/ header.seq_num = Some(header.base_chunk_seq_num)})

InitPending ==
    /\ BufIdle
    /\ PopIdle
    /\ GameIdle
    /\ WireIdle
    /\ TaskIdle
    /\ \E n \in ClientSeqStarts :
          connection_server =
              [a \in Addrs |-> [ConnectionServer_new(a) EXCEPT !.sequence_number = n]]
    /\ \E n \in ServerSeqStarts :
          server = [Server_new EXCEPT !.sequence_number = n]
    /\ received = [a \in Addrs |-> {}]
    /\ server_received = {}
    /\ relayed = {}

\* a DirectRequest of the game reaches send_reliable
Pending_send_reliable ==
    \E salt \in Salts,
       network_msg \in {NetworkMessage("GetServerPlayerIDs", <<>>)}
                       \cup {NetworkMessage("ClientSentWorld", world_bytes(len)) :
                                len \in PendingWorldLens} :
        LET cs == connection_server[RunClient]
            out == send_reliable_serialized(cs, salt, network_msg)
        IN /\ run_pc = "loop"
           /\ server.up
           /\ pending_sends < MaxPendingSends
           /\ connection_server' = [connection_server EXCEPT ![RunClient] = out.cs]
           /\ run_pc' = IF out.panicked = NoPanic THEN run_pc ELSE "panicked"
           /\ request' = Some([msg |-> network_msg,
                               msg_type |-> ResendUntilAck(cs.sequence_number)])
           /\ datagrams' = serialized_datagrams(salt, network_msg, cs.sequence_number)
           /\ UNCHANGED <<server, received, server_received, relayed, collector,
                          collected, combined, parsed, parse_panicked,
                          request_channel, receive_pc, receive_buffer,
                          bufVars, popVars, gameVars>>

\* the server sends a reliable message to dst
Pending_send_and_resend_until_ack(dst) ==
    \E salt \in Salts,
       msg \in {NetworkMessage("ServerRequestHostForWorldData", <<>>)}
               \cup {NetworkMessage("ServerSentWorld", world_bytes(len)) :
                        len \in PendingWorldLens} :
        /\ run_pc = "loop"
        /\ server.up
        /\ pending_sends < MaxPendingSends
        /\ server' = send_and_resend_until_ack_serialized(server, salt, msg, dst)
        /\ request' = Some([msg |-> msg,
                            msg_type |-> ResendUntilAck(server.sequence_number)])
        /\ datagrams' = serialized_datagrams(salt, msg, server.sequence_number)
        /\ UNCHANGED <<connection_server, received, server_received, relayed,
                       collector, collected, combined, parsed, parse_panicked,
                       taskVars, bufVars, popVars, gameVars>>

NextPending ==
    \/ Pending_send_reliable
    \/ \E dst \in Addrs : Pending_send_and_resend_until_ack(dst)

SpecPending == InitPending /\ [][NextPending]_vars

\* every entry of the table is kept under the seq-num its bytes carry, and
\* a chunk under a seq-num of its message: base + i for an i below the
\* number of chunks
KeyedByHeader(table) ==
    \A e \in table :
        LET header == Unwrap(parse_header(e.bytes))
        IN /\ header.seq_num = Some(e.seq_num)
           /\ header.is_chunked =>
                 \E i \in 0 .. header.amt_of_chunks - 1 :
                     e.seq_num = (header.base_chunk_seq_num + i) % U16_RANGE

\* C31: for every entry of a pending table the key seq-num is the seq-num
\* in the header of the stored datagram bytes; the i-th chunk of a chunked
\* message of N chunks starting at S0 carries (S0 + i) mod 2^16 with base
\* seq-num S0 and total-chunks N and is stored under that seq-num; this
\* holds across the wrap-around of the sender's sequence counter.
C31_KeyIsHeaderSeqNum ==
    /\ \A a \in Addrs : KeyedByHeader(connection_server[a].pending_acks)
    /\ \A a \in Addrs : KeyedByHeader(server.non_input_pending_acks[a])
    /\ Len(datagrams) > 1 =>
          \A i \in 1 .. Len(datagrams) :
              LET header == Unwrap(parse_header(datagrams[i]))
                  S0 == Unwrap(request).msg_type.seq_num
              IN /\ header.seq_num = Some((S0 + i - 1) % U16_RANGE)
                 /\ header.base_chunk_seq_num = S0
                 /\ header.amt_of_chunks = Len(datagrams)

\* ceil(len / MAX_UDP_PAYLOAD_DATA_LENGTH)
amt_of_chunks_for(len) ==
    (len + MAX_UDP_PAYLOAD_DATA_LENGTH - 1) \div MAX_UDP_PAYLOAD_DATA_LENGTH

\* C34: a world payload of length L is serialized as one non-chunked
\* datagram when L <= 499 and as ceil(L / 499) chunks when L > 499;
\* serialize fails no assertion for any L, L = 499 included, and every
\* datagram it produces has at most 508 bytes.
C34_ChunkingBoundary ==
    (IsSome(request) /\ Unwrap(request).msg.type \in {"ClientSentWorld", "ServerSentWorld"})
        => LET L == Len(Unwrap(request).msg.payload)
           IN /\ run_pc # "panicked"
              /\ server.up
              /\ \A i \in 1 .. Len(datagrams) : Len(datagrams[i]) <= MAX_UDP_PAYLOAD_LEN
              /\ IF L <= MAX_UDP_PAYLOAD_DATA_LENGTH
                 THEN /\ Len(datagrams) = 1
                      /\ ~Unwrap(parse_header(datagrams[1])).is_chunked
                 ELSE /\ Len(datagrams) = amt_of_chunks_for(L)
                      /\ \A i \in 1 .. Len(datagrams) :
                            Unwrap(parse_header(datagrams[i])).is_chunked

====
